---- MODULE Spec2Model ----
(***************************************************************************)
(* A state-machine model of the C bridge RocksDBBridge.cpp: the handle     *)
(* types (database, batch, iterator, transaction, snapshot, read options)  *)
(* and the engine primitives the bridge calls through them.                *)
(*                                                                         *)
(* A handle is a pointer held by the caller: "null" (never produced),      *)
(* "live", or "freed" (deleted by the bridge, the caller's pointer now     *)
(* dangles).  A call through a freed handle is undefined behaviour; the    *)
(* model draws its outcome from UBOutcomes and records it in `ub`.         *)
(*                                                                         *)
(* The engine is the versioned ordered store behind rocksdb::DB and        *)
(* rocksdb::OptimisticTransactionDB: `kv` is the committed state, `seq`    *)
(* the latest sequence number, `lastw[k]` the sequence number of the last  *)
(* committed write to k (what optimistic validation compares against).     *)
(***************************************************************************)
EXTENDS Integers, Sequences, FiniteSets, TLC

\* ------------------------------------------------------------------ bounds
MaxKey == 2
MaxTxnKey == 1
MaxVal == 1
MaxSeq == 2
MaxOps == 2
MaxSave == 2
MaxBatch == 3
MaxRelease == 2

Keys == {<<i>> : i \in 1..MaxKey}
\* The keys the transaction specifications draw from.
TxnKeys == {<<i>> : i \in 1..MaxTxnKey} \cap Keys
Vals == {<<>>} \cup {<<i>> : i \in 1..MaxVal}
Txns == {1, 2}
NoKey == <<>>

\* ------------------------------------------------------------ status codes
RocksDBStatusOK == 0
RocksDBStatusNotFound == 1
RocksDBStatusCorruption == 2
RocksDBStatusNotSupported == 3
RocksDBStatusInvalidArgument == 4
RocksDBStatusIOError == 5
RocksDBStatusMergeInProgress == 6
RocksDBStatusIncomplete == 7
RocksDBStatusShutdownInProgress == 8
RocksDBStatusTimedOut == 9
RocksDBStatusAborted == 10
RocksDBStatusBusy == 11
RocksDBStatusExpired == 12
RocksDBStatusTryAgain == 13
RocksDBStatusCompactionTooLarge == 14

\* The engine's own status kinds (rocksdb::Status::Code); the last one is a
\* kind the bridge has no branch for.
EngineCodes ==
  {"kOk", "kNotFound", "kCorruption", "kNotSupported", "kInvalidArgument",
   "kIOError", "kMergeInProgress", "kIncomplete", "kShutdownInProgress",
   "kTimedOut", "kAborted", "kBusy", "kExpired", "kTryAgain",
   "kCompactionTooLarge", "kColumnFamilyDropped"}

\* make_status without its NotFound branch: an absent key is reported by the
\* fallback at the end of the chain.
make_status_without_not_found(s) ==
  IF s = "kOk" THEN [code |-> RocksDBStatusOK, message |-> "null"]
  ELSE [code |-> IF s = "kCorruption" THEN RocksDBStatusCorruption
                 ELSE IF s = "kNotSupported" THEN RocksDBStatusNotSupported
                 ELSE IF s = "kInvalidArgument" THEN RocksDBStatusInvalidArgument
                 ELSE RocksDBStatusIOError,
        message |-> "heap"]

\* make_status with the fallback alone: every failure is an IOError.
make_status_generic(s) ==
  IF s = "kOk" THEN [code |-> RocksDBStatusOK, message |-> "null"]
  ELSE [code |-> RocksDBStatusIOError, message |-> "heap"]

make_status(s) ==
  IF s = "kOk" THEN [code |-> RocksDBStatusOK, message |-> "null"]
  ELSE [code |-> IF s = "kNotFound" THEN RocksDBStatusNotFound
                 ELSE IF s = "kCorruption" THEN RocksDBStatusCorruption
                 ELSE IF s = "kNotSupported" THEN RocksDBStatusNotSupported
                 ELSE IF s = "kInvalidArgument" THEN RocksDBStatusInvalidArgument
                 ELSE IF s = "kIOError" THEN RocksDBStatusIOError
                 ELSE IF s = "kMergeInProgress" THEN RocksDBStatusMergeInProgress
                 ELSE IF s = "kIncomplete" THEN RocksDBStatusIncomplete
                 ELSE IF s = "kShutdownInProgress" THEN RocksDBStatusShutdownInProgress
                 ELSE IF s = "kTimedOut" THEN RocksDBStatusTimedOut
                 ELSE IF s = "kAborted" THEN RocksDBStatusAborted
                 ELSE IF s = "kBusy" THEN RocksDBStatusBusy
                 ELSE IF s = "kExpired" THEN RocksDBStatusExpired
                 ELSE IF s = "kTryAgain" THEN RocksDBStatusTryAgain
                 ELSE IF s = "kCompactionTooLarge" THEN RocksDBStatusCompactionTooLarge
                 ELSE RocksDBStatusIOError,
        message |-> "heap"]

make_ok == [code |-> RocksDBStatusOK, message |-> "null"]

\* InvalidArgument with no message attached.
NullHandleStatusBare == [code |-> RocksDBStatusInvalidArgument, message |-> "null"]

\* The status the bridge builds itself on a null handle: strdup'ed message.
NullHandleStatus == [code |-> RocksDBStatusInvalidArgument, message |-> "heap"]

\* ------------------------------------------------------------------- state
VARIABLES
  db,       \* the caller's RocksDBRef and the RocksDBHandle behind it:
            \*   st, mode: the pointer, and the open call that produced it
            \*   db, txn_db, is_transactional: the handle's fields
            \*   allocated: RocksDBHandle objects new'ed and not deleted
            \*   deleted: the engine pointers ~RocksDBHandle has deleted
  eng,      \* the engine instance: "none" | "open" | "deleted"
  kv,       \* committed state: [Keys -> [found, value]]
  seq,      \* latest sequence number
  lastw,    \* [Keys -> sequence number of the last committed write]
  fault,    \* the engine status the next engine call fails with ("kOk": none)
  txn,      \* [Txns -> the caller's RocksDBTransactionRef and its rocksdb::Transaction]
  batch,    \* the caller's RocksDBBatchRef: [st, ops]
  snap,     \* the caller's RocksDBSnapshotRef: [st, frees]
  esnap,    \* the engine's rocksdb::Snapshot behind it: [st, view, releases]
  ropts,    \* the caller's RocksDBReadOptionsRef: [st, snapshot]
  iter,     \* the caller's RocksDBIteratorRef: [st, src, view, pos, status],
            \* and trail (history): the keys it has stood on since its last
            \* noted SeekToFirst
  res,      \* what the last call returned
  ub,       \* TRUE once a call has dereferenced a null or freed handle
  hist      \* history, per transaction:
            \*   gfu: keys read by GetForUpdate and not undone since
            \*   dirty: keys of gfu that another committed write has since written
            \*   term: Commit or Rollback has returned on the transaction
            \*   cut: operations the last RollbackToSavePoint discarded
            \*   got: keys read by plain Get and noted, since the transaction
            \*        began or was last rolled back
            \*   stale: keys of got that another committed write has since written
            \*   dropped: operations the transaction held when it was destroyed
            \*        (gfu is kept past the destroy)

vars == <<db, eng, kv, seq, lastw, fault, txn, batch, snap, esnap,
          ropts, iter, res, ub, hist>>

NotPresent == [found |-> FALSE, value |-> <<>>]
Present(v) == [found |-> TRUE, value |-> v]

NullPtr == [ptr |-> "null", bytes |-> <<>>]
HeapBuf(v) == [ptr |-> "heap", bytes |-> v]

\* What a call returned: the RocksDBStatus, and for the lookups *value_out and
\* *value_len_out.  `undef` marks a call that dereferenced a null or freed
\* handle on its way.
Result(op, t, k, st, out, len) ==
  [op |-> op, t |-> t, key |-> k, code |-> st.code, message |-> st.message,
   out |-> out, len |-> len, undef |-> FALSE]

NoResult == Result("none", 0, NoKey, make_ok, NullPtr, 0)

\* Outcomes of a call through a null or freed handle where the bridge has no
\* check: the memory reads as null and the call's own null check rejects it,
\* the stale object is used as if it were live, or the process faults.
UBOutcomes == {"asnull", "stale", "crash"}

\* malloc(n): a fresh block, or NULL (allocation failure; also a permitted
\* result of malloc(0)).
MallocOutcomes == {"heap", "null"}

\* ------------------------------------------------------------ write batches
PutOp(k, v) == [type |-> "Put", key |-> k, value |-> v, end |-> NoKey]
\* A delete recorded as a Put of the empty value.
DeleteAsEmptyPut(k) == PutOp(k, <<>>)

DeleteOp(k) == [type |-> "Delete", key |-> k, value |-> <<>>, end |-> NoKey]
DeleteRangeOp(s, e) == [type |-> "DeleteRange", key |-> s, value |-> <<>>, end |-> e]

\* Targets a seek is given: the keys, the empty key, a key between two keys
\* and a key above them all.
SeekTargets == Keys \cup {<<>>, <<1, 1>>, <<MaxKey + 1>>}

\* Bytewise comparator on keys: a < b.
RECURSIVE KeyLess(_, _)
KeyLess(a, b) ==
  IF a = <<>> THEN b # <<>>
  ELSE IF b = <<>> THEN FALSE
  ELSE IF Head(a) # Head(b) THEN Head(a) < Head(b)
  ELSE KeyLess(Tail(a), Tail(b))

KeyLeq(a, b) == a = b \/ KeyLess(a, b)

ApplyOp(m, o) ==
  IF o.type = "Put" THEN [m EXCEPT ![o.key] = Present(o.value)]
  ELSE IF o.type = "Delete" THEN [m EXCEPT ![o.key] = NotPresent]
  ELSE [k \in Keys |-> IF KeyLeq(o.key, k) /\ KeyLess(k, o.end)
                       THEN NotPresent ELSE m[k]]

\* The state after applying the operations of a batch in order.
RECURSIVE ApplyOps(_, _)
ApplyOps(m, ops) ==
  IF ops = <<>> THEN m ELSE ApplyOps(ApplyOp(m, Head(ops)), Tail(ops))

OpTouches(o, k) ==
  IF o.type = "DeleteRange" THEN KeyLeq(o.key, k) /\ KeyLess(k, o.end)
  ELSE o.key = k

Written(ops) == {k \in Keys : \E i \in 1..Len(ops) : OpTouches(ops[i], k)}

\* ------------------------------------------------------------------- Init
EmptyKV == [k \in Keys |-> NotPresent]
NoTracked == [k \in Keys |-> -1]
NoHist == [gfu |-> {}, dirty |-> {}, term |-> FALSE, cut |-> 0,
           got |-> {}, stale |-> {}, dropped |-> 0]
NullTxn == [st |-> "null", wb |-> <<>>, tracked |-> NoTracked, sp |-> <<>>]

NoIter == [st |-> "null", src |-> "none", view |-> EmptyKV, pos |-> NoKey,
           status |-> "kOk", trail |-> <<>>]

\* new RocksDBHandle(): both engine pointers null, not transactional.
NewHandle == [db |-> "null", txn_db |-> "null", is_transactional |-> FALSE]

NoHandle == [st |-> "null", mode |-> "none", db |-> "null", txn_db |-> "null",
             is_transactional |-> FALSE, allocated |-> 0, deleted |-> <<>>]

Init ==
  /\ db = NoHandle
  /\ eng = "none"
  /\ kv = EmptyKV
  /\ seq = 0
  /\ lastw = [k \in Keys |-> 0]
  /\ fault = "kOk"
  /\ txn = [t \in Txns |-> NullTxn]
  /\ batch = [st |-> "null", ops |-> <<>>]
  /\ snap = [st |-> "null", frees |-> 0]
  /\ esnap = [st |-> "none", view |-> EmptyKV, releases |-> 0]
  /\ ropts = [st |-> "null", snapshot |-> "none"]
  /\ iter = NoIter
  /\ res = NoResult
  /\ ub = FALSE
  /\ hist = [t \in Txns |-> NoHist]

\* A call that faulted returns nothing.
NoStatus == [code |-> -1, message |-> "null"]

\* The process is running: no earlier call has faulted.
Alive == res.code # NoStatus.code

\* The result of a call that went through a null or freed handle.
Undefined(r) == [r EXCEPT !.undef = TRUE]

\* A call that dereferences a null or freed handle: any of UBOutcomes.
UBCall(op, t, k) ==
  \E o \in UBOutcomes :
    /\ ub' = TRUE
    /\ res' = IF o = "asnull"
              THEN Undefined(Result(op, t, k, NullHandleStatus, NullPtr, 0))
              ELSE IF o = "stale"
              THEN Undefined(Result(op, t, k, make_ok, NullPtr, 0))
              ELSE Undefined(Result(op, t, k, NoStatus, NullPtr, 0))

\* The engine has been deleted under a handle that still points into it.
EngineGone == eng = "deleted"

\* History: a committed write of `ops` by `who` (0: not a transaction) makes
\* dirty every key of it that another transaction holds under GetForUpdate.
NoteWrite(ops) ==
  hist' = [t \in Txns |->
             [hist[t] EXCEPT !.dirty = @ \cup (hist[t].gfu \cap Written(ops)),
                             !.stale = @ \cup (hist[t].got \cap Written(ops))]]

\* rocksdb::DB::Write: the operations of one batch become the next version.
DBWrite(ops) ==
  /\ kv' = ApplyOps(kv, ops)
  /\ seq' = seq + 1
  /\ lastw' = [k \in Keys |-> IF k \in Written(ops) THEN seq + 1 ELSE lastw[k]]

\* The engine's storage starts or stops failing: from now on its calls return
\* status c.
Faults == {"kOk", "kIOError"}

EngineFails(c) ==
  /\ Alive
  /\ eng = "open"
  /\ fault # c
  /\ fault' = c
  /\ UNCHANGED <<db, eng, kv, seq, lastw, txn, batch, snap, esnap, ropts, iter,
                 res, ub, hist>>

\* The path cannot be opened, or can again: the engine's Open returns c.
OpenFails(c) ==
  /\ Alive
  /\ eng = "none"
  /\ fault # c
  /\ fault' = c
  /\ UNCHANGED <<db, eng, kv, seq, lastw, txn, batch, snap, esnap, ropts, iter,
                 res, ub, hist>>

\* ------------------------------------------------------- database handle
\* The handle an open has built by the time it looks at the engine's status:
\* is_transactional is set before OptimisticTransactionDB::Open, the engine
\* fills its out-pointer only on success, and the transactional open then
\* caches GetBaseDB() in db.
BuiltHandle(mode, s) ==
  [NewHandle EXCEPT !.is_transactional = (mode = "txn"),
                    !.db = IF s = "kOk" THEN "base" ELSE "null",
                    !.txn_db = IF s = "kOk" /\ mode = "txn" THEN "set" ELSE "null"]

\* *db_out = handle: the caller's pointer now leads to the handle h.
Published(mode, h) ==
  [st |-> "live", mode |-> mode, db |-> h.db, txn_db |-> h.txn_db,
   is_transactional |-> h.is_transactional,
   allocated |-> db.allocated + 1, deleted |-> db.deleted]

\* A destructor that deletes every non-null engine pointer of the handle.
HandleDestructorBoth(h) ==
  (IF h.txn_db # "null" THEN <<"txn_db">> ELSE <<>>)
    \o (IF h.db # "null" THEN <<"db">> ELSE <<>>)

\* ~RocksDBHandle: the engine pointers it deletes, in order.
HandleDestructor(h) ==
  IF h.is_transactional /\ h.txn_db # "null" THEN <<"txn_db">>
  ELSE IF h.db # "null" THEN <<"db">>
  ELSE <<>>

\* An open that returns without deleting the handle of a failed engine open.
OpenAsLeaking(mode, opts) ==
  /\ Alive
  /\ db.st = "null"
  /\ eng = "none"
  /\ opts # "null"
  /\ ub' = ub
  /\ res' = Result("open", 0, NoKey, make_status(fault), NullPtr, 0)
  /\ db' = IF fault = "kOk"
           THEN Published(mode, BuiltHandle(mode, fault))
           ELSE [db EXCEPT !.allocated = @ + 1]
  /\ eng' = IF fault = "kOk" THEN "open" ELSE eng
  /\ UNCHANGED <<kv, seq, lastw, fault, txn, batch, snap, esnap, ropts, iter, hist>>

\* The three opens share one shape: new handle, engine open, publish or delete.
OpenAs(mode, opts) ==
  /\ Alive
  /\ db.st = "null"
  /\ eng = "none"
  /\ IF opts = "null"
     THEN /\ UBCall("open", 0, NoKey)
          /\ UNCHANGED <<db, eng>>
     ELSE /\ ub' = ub
          /\ res' = Result("open", 0, NoKey, make_status(fault), NullPtr, 0)
          /\ IF fault = "kOk"
             THEN /\ db' = Published(mode, BuiltHandle(mode, fault))
                  /\ eng' = "open"
             ELSE /\ db' = [db EXCEPT !.deleted =
                                      @ \o HandleDestructor(BuiltHandle(mode, fault))]
                  /\ eng' = IF HandleDestructor(BuiltHandle(mode, fault)) = <<>>
                            THEN eng ELSE "deleted"
  /\ UNCHANGED <<kv, seq, lastw, fault, txn, batch, snap, esnap, ropts, iter, hist>>

rocksdb_open(opts) == OpenAs("rw", opts)

rocksdb_open_for_read_only(opts) == OpenAs("ro", opts)

rocksdb_open_transactional(opts) == OpenAs("txn", opts)

rocksdb_close ==
  /\ Alive
  /\ IF db.st = "null"
     THEN /\ res' = Result("close", 0, NoKey, make_ok, NullPtr, 0)
          /\ UNCHANGED <<db, eng, ub>>
     ELSE IF db.st = "live"
     THEN /\ db' = [db EXCEPT !.st = "freed", !.allocated = @ - 1,
                                 !.deleted = @ \o HandleDestructor(db)]
          /\ eng' = IF HandleDestructor(db) = <<>> THEN eng ELSE "deleted"
          /\ res' = Result("close", 0, NoKey, make_ok, NullPtr, 0)
          /\ ub' = ub
     ELSE /\ UBCall("close", 0, NoKey)
          /\ UNCHANGED <<db, eng>>
  /\ UNCHANGED <<kv, seq, lastw, fault, txn, batch, snap, esnap, ropts, iter, hist>>

\* ------------------------------------------------------ key-value operations
\* The read options a call runs with: the caller's (o = TRUE and a live options
\* handle) or the engine's defaults.
WithOpts(o) == o /\ ropts.st = "live"

\* The read options carry a snapshot pointer the engine has already released.
DanglingSnapshot(o) == WithOpts(o) /\ ropts.snapshot = "esnap" /\ esnap.st # "held"

\* A read that never looks at the options' snapshot.
ReadLatest(o) == kv

\* The committed state a read with these options observes.
ReadView(o) == IF WithOpts(o) /\ ropts.snapshot = "esnap" THEN esnap.view ELSE kv

\* The lookups' OK path: *value_len_out = size, *value_out = malloc(size),
\* copied into only when the allocation succeeded.
CopyOut(op, t, k, v, m) ==
  Result(op, t, k, make_status("kOk"),
         IF m = "heap" THEN HeapBuf(v) ELSE NullPtr, Len(v))

\* A lookup that allocates and fills the buffer before it looks at the status.
LookupEager(op, t, k, e, m) ==
  IF fault # "kOk"
  THEN [Result(op, t, k, make_status(fault), NullPtr, 0) EXCEPT
          !.out = IF m = "heap" THEN HeapBuf(e.value) ELSE NullPtr,
          !.len = Len(e.value)]
  ELSE IF e.found THEN CopyOut(op, t, k, e.value, m)
  ELSE Result(op, t, k, make_status("kNotFound"), HeapBuf(<<>>), 0)

\* A lookup's result for what the engine found.
LookupResult(op, t, k, e, m) ==
  IF fault # "kOk" THEN Result(op, t, k, make_status(fault), NullPtr, 0)
  ELSE IF e.found THEN CopyOut(op, t, k, e.value, m)
  ELSE Result(op, t, k, make_status("kNotFound"), NullPtr, 0)

\* rocksdb::DB::Put / Delete on the handle's engine: refused by a read-only
\* instance, failed by a faulty one, else one committed write.
EngineWrite(op, k, ops) ==
  IF fault # "kOk"
  THEN /\ res' = Result(op, 0, k, make_status(fault), NullPtr, 0)
       /\ UNCHANGED <<kv, seq, lastw, hist>>
  ELSE IF db.mode = "ro"
  THEN /\ res' = Result(op, 0, k, make_status("kNotSupported"), NullPtr, 0)
       /\ UNCHANGED <<kv, seq, lastw, hist>>
  ELSE /\ seq < MaxSeq
       /\ DBWrite(ops)
       /\ NoteWrite(ops)
       /\ res' = Result(op, 0, k, make_status("kOk"), NullPtr, 0)

rocksdb_put(k, v) ==
  /\ Alive
  /\ IF db.st = "null"
     THEN /\ res' = Result("put", 0, k, NullHandleStatus, NullPtr, 0)
          /\ UNCHANGED <<kv, seq, lastw, hist, ub>>
     ELSE IF db.st = "live"
     THEN /\ EngineWrite("put", k, <<PutOp(k, v)>>)
          /\ ub' = ub
     ELSE /\ UBCall("put", 0, k)
          /\ UNCHANGED <<kv, seq, lastw, hist>>
  /\ UNCHANGED <<db, eng, fault, txn, batch, snap, esnap, ropts, iter>>

rocksdb_delete(k) ==
  /\ Alive
  /\ IF db.st = "null"
     THEN /\ res' = Result("delete", 0, k, NullHandleStatus, NullPtr, 0)
          /\ UNCHANGED <<kv, seq, lastw, hist, ub>>
     ELSE IF db.st = "live"
     THEN /\ EngineWrite("delete", k, <<DeleteOp(k)>>)
          /\ ub' = ub
     ELSE /\ UBCall("delete", 0, k)
          /\ UNCHANGED <<kv, seq, lastw, hist>>
  /\ UNCHANGED <<db, eng, fault, txn, batch, snap, esnap, ropts, iter>>

\* Get is recorded by whether the caller passed read options.
GetOp(o) == IF o THEN "get_opts" ELSE "get"

rocksdb_get(o, k) ==
  /\ Alive
  /\ IF db.st = "null"
     THEN /\ res' = Result(GetOp(o), 0, k, NullHandleStatus, NullPtr, 0)
          /\ ub' = ub
     ELSE IF db.st = "live" /\ ~DanglingSnapshot(o)
     THEN /\ \E m \in MallocOutcomes :
               res' = LookupResult(GetOp(o), 0, k, ReadView(o)[k], m)
          /\ ub' = ub
     ELSE UBCall(GetOp(o), 0, k)
  /\ UNCHANGED <<db, eng, kv, seq, lastw, fault, txn, batch, snap, esnap, ropts,
                 iter, hist>>

\* ------------------------------------------------------------ transactions
\* The transaction object can be used: the handle is live and so is the
\* OptimisticTransactionDB it belongs to.
TxnLive(t) == txn[t].st = "live" /\ ~EngineGone

\* OptimisticTransaction::TryLock: remember the sequence number at which the
\* key was first read or written; validation at commit compares against it.
TrackKey(tr, k, s) == IF tr[k] = -1 THEN [tr EXCEPT ![k] = s] ELSE tr

\* GetForUpdate handed to the engine as a plain Get: nothing is tracked.
GetTracking(tr, k, s) == tr

\* A Get that registers its key as GetForUpdate does.
GetRegisters(tr, k, s) == TrackKey(tr, k, s)

\* What rocksdb_transaction_get adds to the tracked keys: nothing.
GetTracks(tr, k, s) == tr

\* What rocksdb_transaction_get_for_update adds to the tracked keys.
GetForUpdateTracking(tr, k, s) == TrackKey(tr, k, s)

\* The transaction's view of a key: the latest buffered operation on it, or
\* else the committed state the read options select.
TxnView(t, o) == ApplyOps(ReadView(o), txn[t].wb)

\* Commit's validation: a tracked key has a committed write newer than the
\* sequence number it was tracked at.
Conflict(t) == \E k \in Keys : txn[t].tracked[k] # -1 /\ lastw[k] > txn[t].tracked[k]

\* Transaction::Clear, after a successful Commit and in Rollback.
Cleared(x) == [x EXCEPT !.wb = <<>>, !.tracked = NoTracked, !.sp = <<>>]

\* RollbackToSavePoint done as a whole-transaction Rollback.
RolledBackAll(x) == Cleared(x)

\* Transaction::RollbackToSavePoint with a savepoint on the stack: the batch is
\* cut back to its length at the savepoint, keys tracked since are untracked,
\* the savepoint is popped.
RolledBackToSavePoint(x) ==
  [x EXCEPT !.wb = SubSeq(x.wb, 1, x.sp[Len(x.sp)].n),
            !.tracked = x.sp[Len(x.sp)].tracked,
            !.sp = SubSeq(x.sp, 1, Len(x.sp) - 1)]

\* The savepoint a RollbackToSavePoint would pop.
TopSavePoint(t) == txn[t].sp[Len(txn[t].sp)]

\* A begin that does not look at the mode the handle was opened in.
rocksdb_transaction_begin_any_mode(t) ==
  /\ Alive
  /\ txn[t].st = "null"
  /\ db.st = "live"
  /\ txn' = [txn EXCEPT ![t] = [NullTxn EXCEPT !.st = "live"]]
  /\ res' = Result("txn_begin", t, NoKey, make_ok, HeapBuf(<<>>), 0)
  /\ UNCHANGED <<db, eng, kv, seq, lastw, fault, batch, snap, esnap, ropts, iter, ub,
                 hist>>

rocksdb_transaction_begin(t) ==
  /\ Alive
  /\ txn[t].st = "null"
  /\ IF db.st = "null" \/ (db.st = "live" /\ db.mode # "txn")
     THEN /\ res' = Result("txn_begin", t, NoKey, make_ok, NullPtr, 0)
          /\ UNCHANGED <<txn, ub>>
     ELSE IF db.st = "live"
     THEN /\ txn' = [txn EXCEPT ![t] = [NullTxn EXCEPT !.st = "live"]]
          /\ res' = Result("txn_begin", t, NoKey, make_ok, HeapBuf(<<>>), 0)
          /\ ub' = ub
     ELSE /\ UBCall("txn_begin", t, NoKey)
          /\ UNCHANGED txn
  /\ UNCHANGED <<db, eng, kv, seq, lastw, fault, batch, snap, esnap, ropts, iter, hist>>

\* A destroy that commits what the transaction still holds before freeing it.
rocksdb_transaction_destroy_flushing(t) ==
  /\ Alive
  /\ TxnLive(t)
  /\ txn' = [txn EXCEPT ![t] = [NullTxn EXCEPT !.st = "freed"]]
  /\ kv' = ApplyOps(kv, txn[t].wb)
  /\ res' = Result("txn_destroy", t, NoKey, make_ok, NullPtr, 0)
  /\ UNCHANGED <<db, eng, seq, lastw, fault, batch, snap, esnap, ropts, iter, ub, hist>>

rocksdb_transaction_destroy(t) ==
  /\ Alive
  /\ IF txn[t].st = "null"
     THEN /\ res' = Result("txn_destroy", t, NoKey, make_ok, NullPtr, 0)
          /\ UNCHANGED <<txn, hist, ub>>
     ELSE IF TxnLive(t)
     THEN /\ txn' = [txn EXCEPT ![t] = [NullTxn EXCEPT !.st = "freed"]]
          /\ hist' = [hist EXCEPT ![t] = [NoHist EXCEPT !.gfu = hist[t].gfu,
                                                        !.dropped = Len(txn[t].wb)]]
          /\ res' = Result("txn_destroy", t, NoKey, make_ok, NullPtr, 0)
          /\ ub' = ub
     ELSE /\ UBCall("txn_destroy", t, NoKey)
          /\ UNCHANGED <<txn, hist>>
  /\ UNCHANGED <<db, eng, kv, seq, lastw, fault, batch, snap, esnap, ropts, iter>>

\* A transaction Put or Delete that also applies the operation to the engine.
TxnWriteThrough(op, t, k, o) ==
  /\ Alive
  /\ TxnLive(t)
  /\ Len(txn[t].wb) < MaxOps
  /\ txn' = [txn EXCEPT ![t].wb = Append(@, o),
                        ![t].tracked = TrackKey(@, k, seq)]
  /\ kv' = ApplyOp(kv, o)
  /\ res' = Result(op, t, k, make_status("kOk"), NullPtr, 0)
  /\ UNCHANGED <<db, eng, seq, lastw, fault, batch, snap, esnap, ropts, iter, ub, hist>>

\* Put and Delete buffer one operation and track its key.
TxnBuffer(op, t, k, o) ==
  /\ Alive
  /\ IF txn[t].st = "null"
     THEN /\ res' = Result(op, t, k, NullHandleStatus, NullPtr, 0)
          /\ UNCHANGED <<txn, ub>>
     ELSE IF TxnLive(t)
     THEN /\ Len(txn[t].wb) < MaxOps
          /\ txn' = [txn EXCEPT ![t].wb = Append(@, o),
                                ![t].tracked = TrackKey(@, k, seq)]
          /\ res' = Result(op, t, k, make_status("kOk"), NullPtr, 0)
          /\ ub' = ub
     ELSE /\ UBCall(op, t, k)
          /\ UNCHANGED txn
  /\ UNCHANGED <<db, eng, kv, seq, lastw, fault, batch, snap, esnap, ropts, iter, hist>>

rocksdb_transaction_put(t, k, v) == TxnBuffer("txn_put", t, k, PutOp(k, v))

rocksdb_transaction_delete(t, k) == TxnBuffer("txn_delete", t, k, DeleteOp(k))

\* rocksdb_transaction_get, with h the history after the call.
TxnLookup(t, o, k, h) ==
  /\ Alive
  /\ IF txn[t].st = "null"
     THEN /\ res' = Result("txn_get", t, k, NullHandleStatus, NullPtr, 0)
          /\ UNCHANGED <<txn, hist, ub>>
     ELSE IF TxnLive(t) /\ ~DanglingSnapshot(o)
     THEN /\ \E m \in MallocOutcomes :
               res' = LookupResult("txn_get", t, k, TxnView(t, o)[k], m)
          /\ txn' = [txn EXCEPT ![t].tracked = GetTracks(@, k, seq)]
          /\ hist' = h
          /\ ub' = ub
     ELSE /\ UBCall("txn_get", t, k)
          /\ UNCHANGED <<txn, hist>>
  /\ UNCHANGED <<db, eng, kv, seq, lastw, fault, batch, snap, esnap, ropts, iter>>

rocksdb_transaction_get(t, o, k) == TxnLookup(t, o, k, hist)

\* The same call, with the key noted in the transaction's history.
rocksdb_transaction_get_noted(t, o, k) ==
  TxnLookup(t, o, k, [hist EXCEPT ![t].got = @ \cup {k}])

rocksdb_transaction_get_for_update(t, o, k) ==
  /\ Alive
  /\ IF txn[t].st = "null"
     THEN /\ res' = Result("txn_get_for_update", t, k, NullHandleStatus, NullPtr, 0)
          /\ UNCHANGED <<txn, hist, ub>>
     ELSE IF TxnLive(t) /\ ~DanglingSnapshot(o)
     THEN /\ \E m \in MallocOutcomes :
               res' = LookupResult("txn_get_for_update", t, k, TxnView(t, o)[k], m)
          /\ txn' = [txn EXCEPT ![t].tracked = GetForUpdateTracking(@, k, seq)]
          /\ hist' = [hist EXCEPT ![t].gfu = @ \cup {k}]
          /\ ub' = ub
     ELSE /\ UBCall("txn_get_for_update", t, k)
          /\ UNCHANGED <<txn, hist>>
  /\ UNCHANGED <<db, eng, kv, seq, lastw, fault, batch, snap, esnap, ropts, iter>>

\* OptimisticTransaction::Commit: validate, then write the batch as one unit
\* and clear the transaction; a failed validation or write changes nothing.
rocksdb_transaction_commit(t) ==
  /\ Alive
  /\ IF txn[t].st = "null"
     THEN /\ res' = Result("txn_commit", t, NoKey, NullHandleStatus, NullPtr, 0)
          /\ UNCHANGED <<kv, seq, lastw, txn, hist, ub>>
     ELSE IF TxnLive(t)
     THEN /\ ub' = ub
          /\ IF fault # "kOk"
             THEN /\ res' = Result("txn_commit", t, NoKey, make_status(fault), NullPtr, 0)
                  /\ hist' = [hist EXCEPT ![t].term = TRUE]
                  /\ UNCHANGED <<kv, seq, lastw, txn>>
             ELSE IF Conflict(t)
             THEN /\ res' = Result("txn_commit", t, NoKey, make_status("kBusy"), NullPtr, 0)
                  /\ hist' = [hist EXCEPT ![t].term = TRUE]
                  /\ UNCHANGED <<kv, seq, lastw, txn>>
             ELSE /\ IF txn[t].wb = <<>>
                     THEN UNCHANGED <<kv, seq, lastw>>
                     ELSE seq < MaxSeq /\ DBWrite(txn[t].wb)
                  /\ txn' = [txn EXCEPT ![t] = Cleared(@)]
                  /\ hist' = [u \in Txns |->
                               IF u = t
                               THEN [NoHist EXCEPT !.term = TRUE, !.got = hist[t].got,
                                                   !.stale = hist[t].stale]
                               ELSE [hist[u] EXCEPT
                                       !.dirty = @ \cup (hist[u].gfu \cap Written(txn[t].wb)),
                                       !.stale = @ \cup (hist[u].got \cap Written(txn[t].wb))]]
                  /\ res' = Result("txn_commit", t, NoKey, make_status("kOk"), NullPtr, 0)
     ELSE /\ UBCall("txn_commit", t, NoKey)
          /\ UNCHANGED <<kv, seq, lastw, txn, hist>>
  /\ UNCHANGED <<db, eng, fault, batch, snap, esnap, ropts, iter>>

rocksdb_transaction_rollback(t) ==
  /\ Alive
  /\ IF txn[t].st = "null"
     THEN /\ res' = Result("txn_rollback", t, NoKey, make_ok, NullPtr, 0)
          /\ UNCHANGED <<txn, hist, ub>>
     ELSE IF TxnLive(t)
     THEN /\ txn' = [txn EXCEPT ![t] = Cleared(@)]
          /\ hist' = [hist EXCEPT ![t] = [NoHist EXCEPT !.term = TRUE]]
          /\ res' = Result("txn_rollback", t, NoKey, make_ok, NullPtr, 0)
          /\ ub' = ub
     ELSE /\ UBCall("txn_rollback", t, NoKey)
          /\ UNCHANGED <<txn, hist>>
  /\ UNCHANGED <<db, eng, kv, seq, lastw, fault, batch, snap, esnap, ropts, iter>>

\* The savepoint keeps the batch's length and the tracked keys; its gfu and wb
\* fields are history (what the transaction held when it was set).
rocksdb_transaction_set_savepoint(t) ==
  /\ Alive
  /\ IF txn[t].st = "null"
     THEN /\ res' = Result("txn_set_savepoint", t, NoKey, make_ok, NullPtr, 0)
          /\ UNCHANGED <<txn, ub>>
     ELSE IF TxnLive(t)
     THEN /\ Len(txn[t].sp) < MaxSave
          /\ txn' = [txn EXCEPT ![t].sp =
                        Append(@, [n |-> Len(txn[t].wb), tracked |-> txn[t].tracked,
                                   gfu |-> hist[t].gfu, wb |-> txn[t].wb])]
          /\ res' = Result("txn_set_savepoint", t, NoKey, make_ok, NullPtr, 0)
          /\ ub' = ub
     ELSE /\ UBCall("txn_set_savepoint", t, NoKey)
          /\ UNCHANGED txn
  /\ UNCHANGED <<db, eng, kv, seq, lastw, fault, batch, snap, esnap, ropts, iter, hist>>

rocksdb_transaction_rollback_to_savepoint(t) ==
  /\ Alive
  /\ IF txn[t].st = "null"
     THEN /\ res' = Result("txn_rollback_to_savepoint", t, NoKey, NullHandleStatus, NullPtr, 0)
          /\ UNCHANGED <<txn, hist, ub>>
     ELSE IF TxnLive(t)
     THEN /\ ub' = ub
          /\ IF txn[t].sp = <<>>
             THEN /\ res' = Result("txn_rollback_to_savepoint", t, NoKey,
                                   make_status("kNotFound"), NullPtr, 0)
                  /\ UNCHANGED <<txn, hist>>
             ELSE /\ txn' = [txn EXCEPT ![t] = RolledBackToSavePoint(@)]
                  /\ hist' = [hist EXCEPT ![t].gfu = TopSavePoint(t).gfu,
                                          ![t].dirty = @ \cap TopSavePoint(t).gfu,
                                          ![t].cut = Len(txn[t].wb) - TopSavePoint(t).n]
                  /\ res' = Result("txn_rollback_to_savepoint", t, NoKey,
                                   make_status("kOk"), NullPtr, 0)
     ELSE /\ UBCall("txn_rollback_to_savepoint", t, NoKey)
          /\ UNCHANGED <<txn, hist>>
  /\ UNCHANGED <<db, eng, kv, seq, lastw, fault, batch, snap, esnap, ropts, iter>>

\* ------------------------------------------------------------------ batches
rocksdb_batch_create ==
  /\ Alive
  /\ batch.st = "null"
  /\ batch' = [st |-> "live", ops |-> <<>>]
  /\ res' = Result("batch_create", 0, NoKey, make_ok, HeapBuf(<<>>), 0)
  /\ UNCHANGED <<db, eng, kv, seq, lastw, fault, txn, snap, esnap, ropts, iter, ub, hist>>

\* A batch call that also applies the batch's operations to the engine.
BatchWriteThrough(op, k, ops) ==
  /\ Alive
  /\ batch.st = "live"
  /\ Len(ops) <= MaxBatch
  /\ batch' = [batch EXCEPT !.ops = ops]
  /\ kv' = ApplyOps(kv, ops)
  /\ res' = Result(op, 0, k, make_ok, NullPtr, 0)
  /\ UNCHANGED <<db, eng, seq, lastw, fault, txn, snap, esnap, ropts, iter, ub, hist>>

\* The void batch calls: nothing on a null handle, the mutation on a live one.
BatchCall(op, k, ops) ==
  /\ Alive
  /\ IF batch.st = "null"
     THEN /\ res' = Result(op, 0, k, make_ok, NullPtr, 0)
          /\ UNCHANGED <<batch, ub>>
     ELSE IF batch.st = "live"
     THEN /\ Len(ops) <= MaxBatch
          /\ batch' = [batch EXCEPT !.ops = ops]
          /\ res' = Result(op, 0, k, make_ok, NullPtr, 0)
          /\ ub' = ub
     ELSE /\ UBCall(op, 0, k)
          /\ UNCHANGED batch
  /\ UNCHANGED <<db, eng, kv, seq, lastw, fault, txn, snap, esnap, ropts, iter, hist>>

rocksdb_batch_put(k, v) == BatchCall("batch_put", k, Append(batch.ops, PutOp(k, v)))

rocksdb_batch_delete(k) == BatchCall("batch_delete", k, Append(batch.ops, DeleteOp(k)))

rocksdb_batch_delete_range(s, e) ==
  BatchCall("batch_delete_range", s, Append(batch.ops, DeleteRangeOp(s, e)))

rocksdb_batch_clear == BatchCall("batch_clear", NoKey, <<>>)

rocksdb_batch_destroy ==
  /\ Alive
  /\ IF batch.st = "freed"
     THEN /\ UBCall("batch_destroy", 0, NoKey)
          /\ UNCHANGED batch
     ELSE /\ batch' = IF batch.st = "live" THEN [st |-> "freed", ops |-> <<>>] ELSE batch
          /\ res' = Result("batch_destroy", 0, NoKey, make_ok, NullPtr, 0)
          /\ ub' = ub
  /\ UNCHANGED <<db, eng, kv, seq, lastw, fault, txn, snap, esnap, ropts, iter, hist>>

\* DB::Write given only the first operation of the batch.
WriteFirstOnly(ops) ==
  IF ops = <<>> THEN UNCHANGED <<kv, seq, lastw>>
  ELSE /\ kv' = ApplyOp(kv, Head(ops))
       /\ seq' = seq + 1
       /\ lastw' = [k \in Keys |-> IF OpTouches(Head(ops), k) THEN seq + 1 ELSE lastw[k]]

\* The one engine call of rocksdb_write_batch: the whole batch in one Write.
WriteWhole(ops) ==
  IF ops = <<>> THEN UNCHANGED <<kv, seq, lastw>> ELSE DBWrite(ops)

\* A write that fails after its first operation has already been applied.
rocksdb_write_batch_torn ==
  /\ Alive
  /\ db.st = "live" /\ batch.st = "live"
  /\ fault # "kOk" /\ batch.ops # <<>>
  /\ kv' = ApplyOp(kv, Head(batch.ops))
  /\ res' = Result("write_batch", 0, NoKey, make_status(fault), NullPtr, 0)
  /\ UNCHANGED <<db, eng, seq, lastw, fault, txn, batch, snap, esnap, ropts, iter,
                 ub, hist>>

rocksdb_write_batch ==
  /\ Alive
  /\ IF db.st = "null" \/ batch.st = "null"
     THEN /\ res' = Result("write_batch", 0, NoKey, NullHandleStatus, NullPtr, 0)
          /\ UNCHANGED <<kv, seq, lastw, hist, ub>>
     ELSE IF db.st = "live" /\ batch.st = "live"
     THEN /\ ub' = ub
          /\ IF fault # "kOk"
             THEN /\ res' = Result("write_batch", 0, NoKey, make_status(fault), NullPtr, 0)
                  /\ UNCHANGED <<kv, seq, lastw, hist>>
             ELSE IF db.mode = "ro"
             THEN /\ res' = Result("write_batch", 0, NoKey, make_status("kNotSupported"),
                                   NullPtr, 0)
                  /\ UNCHANGED <<kv, seq, lastw, hist>>
             ELSE /\ seq < MaxSeq
                  /\ WriteWhole(batch.ops)
                  /\ NoteWrite(batch.ops)
                  /\ res' = Result("write_batch", 0, NoKey, make_status("kOk"), NullPtr, 0)
     ELSE /\ UBCall("write_batch", 0, NoKey)
          /\ UNCHANGED <<kv, seq, lastw, hist>>
  /\ UNCHANGED <<db, eng, fault, txn, batch, snap, esnap, ropts, iter>>

\* ------------------------------------------------- read options, snapshots
rocksdb_read_options_create ==
  /\ Alive
  /\ ropts.st = "null"
  /\ ropts' = [st |-> "live", snapshot |-> "none"]
  /\ res' = Result("read_options_create", 0, NoKey, make_ok, HeapBuf(<<>>), 0)
  /\ UNCHANGED <<db, eng, kv, seq, lastw, fault, txn, batch, snap, esnap, iter, ub, hist>>

\* What rocksdb_read_options_set_snapshot stores for a null (s = FALSE or a
\* null handle) or live snapshot handle: snapshot ? snapshot->snapshot : nullptr.
SnapshotPointer(s) == IF s /\ snap.st = "live" THEN "esnap" ELSE "none"

\* opts is dereferenced unchecked; so is a non-null snapshot handle.
rocksdb_read_options_set_snapshot(s) ==
  /\ Alive
  /\ IF ropts.st = "live" /\ ~(s /\ snap.st = "freed")
     THEN /\ ropts' = [ropts EXCEPT !.snapshot = SnapshotPointer(s)]
          /\ res' = Result("set_snapshot", 0, NoKey, make_ok, NullPtr, 0)
          /\ ub' = ub
     ELSE /\ UBCall("set_snapshot", 0, NoKey)
          /\ ropts' = IF ropts.st = "live" /\ res'.code = RocksDBStatusOK
                      THEN [ropts EXCEPT !.snapshot = "esnap"] ELSE ropts
  /\ UNCHANGED <<db, eng, kv, seq, lastw, fault, txn, batch, snap, esnap, iter, hist>>

\* DB::GetSnapshot pins the committed state of this moment.
rocksdb_create_snapshot ==
  /\ Alive
  /\ snap.st = "null"
  /\ IF db.st = "null"
     THEN /\ res' = Result("create_snapshot", 0, NoKey, make_ok, NullPtr, 0)
          /\ UNCHANGED <<snap, esnap, ub>>
     ELSE IF db.st = "live"
     THEN /\ snap' = [snap EXCEPT !.st = "live"]
          /\ esnap' = [esnap EXCEPT !.st = "held", !.view = kv]
          /\ res' = Result("create_snapshot", 0, NoKey, make_ok, HeapBuf(<<>>), 0)
          /\ ub' = ub
     ELSE /\ UBCall("create_snapshot", 0, NoKey)
          /\ UNCHANGED <<snap, esnap>>
  /\ UNCHANGED <<db, eng, kv, seq, lastw, fault, txn, batch, ropts, iter, hist>>

\* ReleaseSnapshot when all four pointers test non-null, then `delete snapshot`
\* whatever the tests said.  On a handle already freed the tests read freed
\* memory (it may still hold the engine pointer, or read as null) and the
\* delete frees the block a second time.
\* The db argument of a call: the caller's handle, or a null pointer.
DbArgs == {"handle", "null"}

\* What the call's `db` is: null, live or freed.
DbGiven(d) == IF d = "null" THEN "null" ELSE db.st

\* rocksdb_release_snapshot(d, snapshot).
rocksdb_release_snapshot_with(d) ==
  /\ Alive
  /\ snap.frees < MaxRelease
  /\ IF snap.st = "null"
     THEN /\ res' = Result("release_snapshot", 0, NoKey, make_ok, NullPtr, 0)
          /\ UNCHANGED <<snap, esnap, ub>>
     ELSE IF snap.st = "live" /\ DbGiven(d) # "freed"
     THEN /\ snap' = [st |-> "freed", frees |-> snap.frees + 1]
          /\ esnap' = IF DbGiven(d) = "live"
                      THEN [esnap EXCEPT !.st = "released", !.releases = @ + 1]
                      ELSE esnap
          /\ res' = Result("release_snapshot", 0, NoKey, make_ok, NullPtr, 0)
          /\ ub' = ub
     ELSE /\ UBCall("release_snapshot", 0, NoKey)
          /\ snap' = IF res'.code = NoStatus.code THEN snap
                     ELSE [st |-> "freed", frees |-> snap.frees + 1]
          /\ esnap' = IF res'.code = RocksDBStatusOK /\ DbGiven(d) = "live"
                      THEN [esnap EXCEPT !.st = "released", !.releases = @ + 1]
                      ELSE esnap
  /\ UNCHANGED <<db, eng, kv, seq, lastw, fault, txn, batch, ropts, iter, hist>>

\* The call given the handle the snapshot was created from.
rocksdb_release_snapshot == rocksdb_release_snapshot_with("handle")

\* ---------------------------------------------------------------- iterators
\* An iterator can be used: its handle is live and the engine it walks exists.
IterLive == iter.st = "live" /\ ~EngineGone

\* Iterator::SeekToFirst: the smallest key the iterator's view holds.
FirstKey(view) ==
  IF \A k \in Keys : ~view[k].found THEN NoKey
  ELSE CHOOSE k \in Keys :
         view[k].found /\ \A j \in Keys : view[j].found => KeyLeq(k, j)

\* A Next that stays on the current key.
NextStuck(view, p) == p

\* Iterator::Next: the smallest key of the view above the current one.
NextKey(view, p) ==
  FirstKey([k \in Keys |-> IF KeyLess(p, k) THEN view[k] ELSE NotPresent])

\* Iterator::SeekToLast: the largest key the iterator's view holds.
LastKey(view) ==
  IF \A k \in Keys : ~view[k].found THEN NoKey
  ELSE CHOOSE k \in Keys :
         view[k].found /\ \A j \in Keys : view[j].found => KeyLeq(j, k)

\* Iterator::Prev: the largest key of the view below the current one.
PrevKey(view, p) ==
  LastKey([k \in Keys |-> IF KeyLess(k, p) THEN view[k] ELSE NotPresent])

\* A Seek that lands on the first key strictly above the target.
SeekKeyStrict(view, t) ==
  FirstKey([k \in Keys |-> IF KeyLess(t, k) THEN view[k] ELSE NotPresent])

\* Iterator::Seek: the smallest key of the view at or above the target.
SeekKey(view, t) ==
  FirstKey([k \in Keys |-> IF KeyLeq(t, k) THEN view[k] ELSE NotPresent])

\* Iterator::SeekForPrev: the largest key of the view at or below the target.
SeekForPrevKey(view, t) ==
  LastKey([k \in Keys |-> IF KeyLeq(k, t) THEN view[k] ELSE NotPresent])

\* NewIterator: the iterator walks the view its read options select.
rocksdb_iterator_create(o) ==
  /\ Alive
  /\ iter.st = "null"
  /\ IF db.st = "null"
     THEN /\ res' = Result("iterator_create", 0, NoKey, make_ok, NullPtr, 0)
          /\ UNCHANGED <<iter, ub>>
     ELSE IF db.st = "live" /\ ~DanglingSnapshot(o)
     THEN /\ iter' = [st |-> "live",
                      src |-> IF WithOpts(o) /\ ropts.snapshot = "esnap"
                              THEN "esnap" ELSE "latest",
                      view |-> ReadView(o), pos |-> NoKey, status |-> "kOk",
                      trail |-> <<>>]
          /\ res' = Result("iterator_create", 0, NoKey, make_ok, HeapBuf(<<>>), 0)
          /\ ub' = ub
     ELSE /\ UBCall("iterator_create", 0, NoKey)
          /\ UNCHANGED iter
  /\ UNCHANGED <<db, eng, kv, seq, lastw, fault, txn, batch, snap, esnap, ropts, hist>>

\* The void positioning calls: nothing on a null handle; `pre` is what the
\* engine's call requires of the iterator.  A move over failing storage
\* leaves the iterator not valid, the failure kept as its status.  t is the
\* target key the call was given, tr the trail after the move.
IterMoveNoting(op, t, pre, p, tr) ==
  /\ Alive
  /\ IF iter.st = "null"
     THEN /\ res' = Result(op, 0, t, make_ok, NullPtr, 0)
          /\ UNCHANGED <<iter, ub>>
     ELSE IF IterLive /\ pre
     THEN /\ iter' = [iter EXCEPT !.pos = IF fault = "kOk" THEN p ELSE NoKey,
                                  !.status = fault,
                                  !.trail = tr]
          /\ res' = Result(op, 0, t, make_ok, NullPtr, 0)
          /\ ub' = ub
     ELSE /\ UBCall(op, 0, t)
          /\ UNCHANGED iter
  /\ UNCHANGED <<db, eng, kv, seq, lastw, fault, txn, batch, snap, esnap, ropts, hist>>

IterMove(op, pre, p) == IterMoveNoting(op, NoKey, pre, p, iter.trail)

rocksdb_iterator_seek_to_first ==
  IterMove("iterator_seek_to_first", TRUE, FirstKey(iter.view))

\* Iterator::Next requires Valid(); the bridge calls it without asking.
rocksdb_iterator_next ==
  IterMove("iterator_next", iter.pos # NoKey, NextKey(iter.view, iter.pos))

\* The trail once the iterator has been moved to p.
Stepped(tr, p) == IF p = NoKey THEN tr ELSE Append(tr, p)

\* The same two calls, with the keys stood on noted in the trail.
rocksdb_iterator_seek_to_first_noted ==
  IterMoveNoting("iterator_seek_to_first", NoKey, TRUE, FirstKey(iter.view),
                 Stepped(<<>>, FirstKey(iter.view)))

rocksdb_iterator_next_noted ==
  IterMoveNoting("iterator_next", NoKey, iter.pos # NoKey, NextKey(iter.view, iter.pos),
                 Stepped(iter.trail, NextKey(iter.view, iter.pos)))

rocksdb_iterator_seek_to_last ==
  IterMove("iterator_seek_to_last", TRUE, LastKey(iter.view))

rocksdb_iterator_seek(t) ==
  IterMoveNoting("iterator_seek", t, TRUE, SeekKey(iter.view, t), iter.trail)

rocksdb_iterator_seek_for_prev(t) ==
  IterMoveNoting("iterator_seek_for_prev", t, TRUE, SeekForPrevKey(iter.view, t),
                 iter.trail)

\* Iterator::Prev requires Valid(), as Next does.
rocksdb_iterator_prev ==
  IterMove("iterator_prev", iter.pos # NoKey, PrevKey(iter.view, iter.pos))

\* iter && iter->iter && iter->iter->Valid(), as 1 or 0 (in len).
rocksdb_iterator_valid ==
  /\ Alive
  /\ IF iter.st = "null"
     THEN /\ res' = Result("iterator_valid", 0, NoKey, make_ok, NullPtr, 0)
          /\ ub' = ub
     ELSE IF IterLive
     THEN /\ res' = Result("iterator_valid", 0, iter.pos, make_ok, NullPtr,
                           IF iter.pos = NoKey THEN 0 ELSE 1)
          /\ ub' = ub
     ELSE UBCall("iterator_valid", 0, NoKey)
  /\ UNCHANGED <<db, eng, kv, seq, lastw, fault, txn, batch, snap, esnap, ropts,
                 iter, hist>>

\* An accessor that hands back the iterator's buffer without asking Valid().
IterAccessUnchecked(op, bytes) ==
  /\ Alive
  /\ iter.st = "live"
  /\ res' = Result(op, 0, iter.pos, make_ok, [ptr |-> "internal", bytes |-> bytes],
                   Len(bytes))
  /\ UNCHANGED <<db, eng, kv, seq, lastw, fault, txn, batch, snap, esnap, ropts,
                 iter, ub, hist>>

\* The key and value accessors: null with length 0 when the handle is null or
\* the iterator not valid, else a pointer into the iterator's own memory.
IterAccess(op, bytes) ==
  /\ Alive
  /\ IF iter.st = "null"
     THEN /\ res' = Result(op, 0, NoKey, make_ok, NullPtr, 0)
          /\ ub' = ub
     ELSE IF IterLive
     THEN /\ res' = IF iter.pos = NoKey
                    THEN Result(op, 0, NoKey, make_ok, NullPtr, 0)
                    ELSE Result(op, 0, iter.pos, make_ok,
                                [ptr |-> "internal", bytes |-> bytes], Len(bytes))
          /\ ub' = ub
     ELSE UBCall(op, 0, NoKey)
  /\ UNCHANGED <<db, eng, kv, seq, lastw, fault, txn, batch, snap, esnap, ropts,
                 iter, hist>>

\* A value accessor that reads the latest committed state.
rocksdb_iterator_value_latest ==
  IterAccess("iterator_value",
             IF iter.pos = NoKey THEN <<>> ELSE kv[iter.pos].value)

\* The value under the iterator.
rocksdb_iterator_value ==
  IterAccess("iterator_value",
             IF iter.pos = NoKey THEN <<>> ELSE iter.view[iter.pos].value)

\* The key under the iterator: a pointer into the iterator's own memory, or
\* null with length 0 when the handle is null or the iterator not valid.
rocksdb_iterator_key ==
  /\ Alive
  /\ IF iter.st = "null"
     THEN /\ res' = Result("iterator_key", 0, NoKey, make_ok, NullPtr, 0)
          /\ ub' = ub
     ELSE IF IterLive
     THEN /\ res' = IF iter.pos = NoKey
                    THEN Result("iterator_key", 0, NoKey, make_ok, NullPtr, 0)
                    ELSE Result("iterator_key", 0, iter.pos, make_ok,
                                [ptr |-> "internal", bytes |-> iter.pos], Len(iter.pos))
          /\ ub' = ub
     ELSE UBCall("iterator_key", 0, NoKey)
  /\ UNCHANGED <<db, eng, kv, seq, lastw, fault, txn, batch, snap, esnap, ropts,
                 iter, hist>>

\* Iterator::status through make_status, or the bridge's own InvalidArgument
\* on a null handle.
rocksdb_iterator_status ==
  /\ Alive
  /\ IF iter.st = "null"
     THEN /\ res' = Result("iterator_status", 0, NoKey, NullHandleStatus, NullPtr, 0)
          /\ ub' = ub
     ELSE IF IterLive
     THEN /\ res' = Result("iterator_status", 0, NoKey, make_status(iter.status),
                           NullPtr, 0)
          /\ ub' = ub
     ELSE UBCall("iterator_status", 0, NoKey)
  /\ UNCHANGED <<db, eng, kv, seq, lastw, fault, txn, batch, snap, esnap, ropts,
                 iter, hist>>

rocksdb_iterator_destroy ==
  /\ Alive
  /\ IF iter.st = "null"
     THEN /\ res' = Result("iterator_destroy", 0, NoKey, make_ok, NullPtr, 0)
          /\ UNCHANGED <<iter, ub>>
     ELSE IF IterLive
     THEN /\ iter' = [NoIter EXCEPT !.st = "freed"]
          /\ res' = Result("iterator_destroy", 0, NoKey, make_ok, NullPtr, 0)
          /\ ub' = ub
     ELSE /\ UBCall("iterator_destroy", 0, NoKey)
          /\ UNCHANGED iter
  /\ UNCHANGED <<db, eng, kv, seq, lastw, fault, txn, batch, snap, esnap, ropts, hist>>

\* ---------------------------------------------------------- specifications
\* Two transactions and a direct reader on one transactional handle.
NextTxn ==
  \/ rocksdb_open_transactional("live")
  \/ \E k \in TxnKeys : rocksdb_get(FALSE, k)
  \/ \E t \in Txns : rocksdb_transaction_begin(t)
  \/ \E t \in Txns, k \in TxnKeys, v \in Vals : rocksdb_transaction_put(t, k, v)
  \/ \E t \in Txns, k \in TxnKeys : rocksdb_transaction_delete(t, k)
  \/ \E t \in Txns, k \in TxnKeys : rocksdb_transaction_get(t, FALSE, k)
  \/ \E t \in Txns, k \in TxnKeys : rocksdb_transaction_get_for_update(t, FALSE, k)
  \/ \E t \in Txns : rocksdb_transaction_commit(t)
  \/ \E t \in Txns : rocksdb_transaction_rollback(t)

SpecTxn == Init /\ [][NextTxn]_vars

\* One transaction with savepoints, a direct writer and a direct reader.
NextSave ==
  \/ rocksdb_open_transactional("live")
  \/ \E k \in TxnKeys, v \in Vals : rocksdb_put(k, v)
  \/ \E k \in TxnKeys : rocksdb_get(FALSE, k)
  \/ rocksdb_transaction_begin(1)
  \/ \E k \in TxnKeys, v \in Vals : rocksdb_transaction_put(1, k, v)
  \/ \E k \in TxnKeys : rocksdb_transaction_delete(1, k)
  \/ \E k \in TxnKeys : rocksdb_transaction_get(1, FALSE, k)
  \/ \E k \in TxnKeys : rocksdb_transaction_get_for_update(1, FALSE, k)
  \/ rocksdb_transaction_commit(1)
  \/ rocksdb_transaction_rollback(1)
  \/ rocksdb_transaction_set_savepoint(1)
  \/ rocksdb_transaction_rollback_to_savepoint(1)

SpecSave == Init /\ [][NextSave]_vars

\* A batch being filled and written while a reader and a direct writer run,
\* over storage that may fail.
NextBatch ==
  \/ rocksdb_open("live")
  \/ \E k \in Keys, v \in Vals : rocksdb_put(k, v)
  \/ \E k \in Keys : rocksdb_get(FALSE, k)
  \/ rocksdb_batch_create
  \/ \E k \in Keys, v \in Vals : rocksdb_batch_put(k, v)
  \/ \E k \in Keys : rocksdb_batch_delete(k)
  \/ \E s \in Keys, e \in Keys : KeyLeq(s, e) /\ rocksdb_batch_delete_range(s, e)
  \/ rocksdb_batch_clear
  \/ rocksdb_write_batch
  \/ \E c \in Faults : EngineFails(c)

SpecBatch == Init /\ [][NextBatch]_vars

\* A snapshot, read options and an iterator beside direct writes and reads.
NextSnap ==
  \/ rocksdb_open("live")
  \/ \E k \in Keys, v \in Vals : rocksdb_put(k, v)
  \/ \E k \in Keys : rocksdb_delete(k)
  \/ \E o \in BOOLEAN, k \in Keys : rocksdb_get(o, k)
  \/ rocksdb_read_options_create
  \/ \E s \in BOOLEAN : rocksdb_read_options_set_snapshot(s)
  \/ rocksdb_create_snapshot
  \/ rocksdb_release_snapshot
  \/ \E o \in BOOLEAN : rocksdb_iterator_create(o)
  \/ rocksdb_iterator_seek_to_first
  \/ rocksdb_iterator_next
  \/ rocksdb_iterator_key
  \/ rocksdb_iterator_destroy

SpecSnap == Init /\ [][NextSnap]_vars

\* A database handle, a transaction and a batch through their whole lives:
\* calls arrive before the handle exists, while it is live and after it has
\* been closed or destroyed.
NextLife ==
  \/ \E opts \in {"live", "null"} : rocksdb_open_transactional(opts)
  \/ rocksdb_close
  \/ \E k \in TxnKeys, v \in Vals : rocksdb_put(k, v)
  \/ \E k \in TxnKeys : rocksdb_get(FALSE, k)
  \/ rocksdb_transaction_begin(1)
  \/ \E k \in TxnKeys, v \in Vals : rocksdb_transaction_put(1, k, v)
  \/ rocksdb_transaction_commit(1)
  \/ rocksdb_transaction_destroy(1)
  \/ rocksdb_batch_create
  \/ \E k \in TxnKeys, v \in Vals : rocksdb_batch_put(k, v)
  \/ rocksdb_batch_destroy
  \/ rocksdb_write_batch

SpecLife == Init /\ [][NextLife]_vars

\* An iterator, a transaction and a snapshot made from a database handle that
\* may be closed while they are still held.
NextClose ==
  \/ rocksdb_open_transactional("live")
  \/ rocksdb_close
  \/ \E k \in TxnKeys, v \in Vals : rocksdb_put(k, v)
  \/ rocksdb_transaction_begin(1)
  \/ \E k \in TxnKeys : rocksdb_transaction_get(1, FALSE, k)
  \/ rocksdb_transaction_rollback(1)
  \/ rocksdb_iterator_create(FALSE)
  \/ rocksdb_iterator_seek_to_first
  \/ rocksdb_iterator_key
  \/ rocksdb_iterator_destroy
  \/ rocksdb_create_snapshot
  \/ rocksdb_release_snapshot

SpecClose == Init /\ [][NextClose]_vars

\* Direct writes and reads on a read-write handle over storage that may fail.
NextKV ==
  \/ rocksdb_open("live")
  \/ \E k \in Keys, v \in Vals : rocksdb_put(k, v)
  \/ \E k \in Keys : rocksdb_delete(k)
  \/ \E k \in Keys : rocksdb_get(FALSE, k)
  \/ \E c \in Faults : EngineFails(c)

SpecKV == Init /\ [][NextKV]_vars

\* Point lookups, direct and through a transaction, on one key, over storage
\* that may fail with any status.
NextLookup ==
  \/ rocksdb_open_transactional("live")
  \/ \E k \in TxnKeys, v \in Vals : rocksdb_put(k, v)
  \/ \E k \in TxnKeys : rocksdb_get(FALSE, k)
  \/ rocksdb_transaction_begin(1)
  \/ \E k \in TxnKeys, v \in Vals : rocksdb_transaction_put(1, k, v)
  \/ \E k \in TxnKeys : rocksdb_transaction_get(1, FALSE, k)
  \/ \E k \in TxnKeys : rocksdb_transaction_get_for_update(1, FALSE, k)
  \/ \E c \in EngineCodes : EngineFails(c)

SpecLookup == Init /\ [][NextLookup]_vars

\* A batch filled, cleared and destroyed without ever being written, beside a
\* direct writer, a reader and an iterator.
NextFrame ==
  \/ rocksdb_open("live")
  \/ \E k \in TxnKeys, v \in Vals : rocksdb_put(k, v)
  \/ \E k \in Keys : rocksdb_get(FALSE, k)
  \/ rocksdb_batch_create
  \/ \E k \in Keys, v \in Vals : rocksdb_batch_put(k, v)
  \/ \E k \in Keys : rocksdb_batch_delete(k)
  \/ \E s \in Keys, e \in Keys : KeyLeq(s, e) /\ rocksdb_batch_delete_range(s, e)
  \/ rocksdb_batch_clear
  \/ rocksdb_batch_destroy
  \/ rocksdb_iterator_create(FALSE)
  \/ rocksdb_iterator_seek_to_first
  \/ rocksdb_iterator_key

SpecFrame == Init /\ [][NextFrame]_vars

\* A batch write and a transaction commit that can fail: the storage may fail,
\* and a direct writer may get in before the commit.
NextFail ==
  \/ rocksdb_open_transactional("live")
  \/ \E k \in TxnKeys, v \in Vals : rocksdb_put(k, v)
  \/ rocksdb_batch_create
  \/ \E k \in TxnKeys, v \in Vals : rocksdb_batch_put(k, v)
  \/ rocksdb_write_batch
  \/ rocksdb_transaction_begin(1)
  \/ \E k \in TxnKeys, v \in Vals : rocksdb_transaction_put(1, k, v)
  \/ \E k \in TxnKeys : rocksdb_transaction_delete(1, k)
  \/ rocksdb_transaction_commit(1)
  \/ \E c \in Faults : EngineFails(c)

SpecFail == Init /\ [][NextFail]_vars

\* Two transactions that write, read with plain Get and commit, every Get
\* noted in the history.
NextRead ==
  \/ rocksdb_open_transactional("live")
  \/ \E t \in Txns : rocksdb_transaction_begin(t)
  \/ \E t \in Txns, k \in TxnKeys, v \in Vals : rocksdb_transaction_put(t, k, v)
  \/ \E t \in Txns, k \in TxnKeys : rocksdb_transaction_delete(t, k)
  \/ \E t \in Txns, k \in TxnKeys : rocksdb_transaction_get_noted(t, FALSE, k)
  \/ \E t \in Txns : rocksdb_transaction_commit(t)

SpecRead == Init /\ [][NextRead]_vars

\* Two transactions on one key; the first may be destroyed with operations
\* and a GetForUpdate still held.
NextDestroy ==
  \/ rocksdb_open_transactional("live")
  \/ \E k \in TxnKeys : rocksdb_get(FALSE, k)
  \/ \E t \in Txns : rocksdb_transaction_begin(t)
  \/ \E t \in Txns, k \in TxnKeys, v \in Vals : rocksdb_transaction_put(t, k, v)
  \/ \E k \in TxnKeys : rocksdb_transaction_get_for_update(1, FALSE, k)
  \/ \E t \in Txns : rocksdb_transaction_commit(t)
  \/ rocksdb_transaction_destroy(1)

SpecDestroy == Init /\ [][NextDestroy]_vars

\* A handle opened in any of the three modes, or not at all, and transactions
\* begun on it.
NextBegin ==
  \/ rocksdb_open("live")
  \/ rocksdb_open_for_read_only("live")
  \/ rocksdb_open_transactional("live")
  \/ \E k \in TxnKeys, v \in Vals : rocksdb_put(k, v)
  \/ \E k \in TxnKeys : rocksdb_get(FALSE, k)
  \/ \E t \in Txns : rocksdb_transaction_begin(t)
  \/ \E t \in Txns, k \in TxnKeys, v \in Vals : rocksdb_transaction_put(t, k, v)
  \/ \E t \in Txns : rocksdb_transaction_commit(t)

SpecBegin == Init /\ [][NextBegin]_vars

\* A path that may fail to open, with any status, opened in any of the three
\* modes, used and closed.
NextOpen ==
  \/ \E c \in EngineCodes : OpenFails(c)
  \/ rocksdb_open("live")
  \/ rocksdb_open_for_read_only("live")
  \/ rocksdb_open_transactional("live")
  \/ \E k \in TxnKeys, v \in Vals : rocksdb_put(k, v)
  \/ \E k \in TxnKeys : rocksdb_get(FALSE, k)
  \/ rocksdb_transaction_begin(1)
  \/ rocksdb_close

SpecOpen == Init /\ [][NextOpen]_vars

\* Every kind of status-returning call, on handles that do not exist yet and
\* on live ones, over storage that may fail.
NextStatus ==
  \/ rocksdb_open_transactional("live")
  \/ \E k \in TxnKeys, v \in Vals : rocksdb_put(k, v)
  \/ \E k \in TxnKeys : rocksdb_get(FALSE, k)
  \/ \E k \in TxnKeys : rocksdb_delete(k)
  \/ rocksdb_write_batch
  \/ rocksdb_transaction_begin(1)
  \/ \E k \in TxnKeys, v \in Vals : rocksdb_transaction_put(1, k, v)
  \/ \E k \in TxnKeys : rocksdb_transaction_get(1, FALSE, k)
  \/ rocksdb_transaction_commit(1)
  \/ rocksdb_transaction_rollback_to_savepoint(1)
  \/ rocksdb_iterator_create(FALSE)
  \/ rocksdb_iterator_seek_to_first
  \/ rocksdb_iterator_status
  \/ \E c \in Faults : EngineFails(c)

SpecStatus == Init /\ [][NextStatus]_vars

\* An iterator walked from its first key to exhaustion over whatever the
\* database holds, every key it stands on noted.
NextWalk ==
  \/ rocksdb_open("live")
  \/ \E k \in Keys, v \in Vals : rocksdb_put(k, v)
  \/ \E k \in Keys : rocksdb_delete(k)
  \/ rocksdb_iterator_create(FALSE)
  \/ rocksdb_iterator_seek_to_first_noted
  \/ rocksdb_iterator_next_noted
  \/ rocksdb_iterator_valid
  \/ rocksdb_iterator_status

SpecWalk == Init /\ [][NextWalk]_vars

\* An iterator positioned by every kind of seek, stepped both ways, and asked
\* for its validity, key and value at every point, before it exists included.
NextSeek ==
  \/ rocksdb_open("live")
  \/ \E k \in Keys, v \in Vals : rocksdb_put(k, v)
  \/ \E k \in Keys : rocksdb_delete(k)
  \/ rocksdb_iterator_create(FALSE)
  \/ rocksdb_iterator_seek_to_first
  \/ rocksdb_iterator_seek_to_last
  \/ \E t \in SeekTargets : rocksdb_iterator_seek(t)
  \/ \E t \in SeekTargets : rocksdb_iterator_seek_for_prev(t)
  \/ rocksdb_iterator_next
  \/ rocksdb_iterator_prev
  \/ rocksdb_iterator_valid
  \/ rocksdb_iterator_key
  \/ rocksdb_iterator_value

SpecSeek == Init /\ [][NextSeek]_vars

\* An iterator, created with or without a snapshot in its read options, that
\* is walked while direct writes, batch writes (of up to two Puts) and
\* transaction commits (of one Put) go on.
NextBound ==
  \/ rocksdb_open_transactional("live")
  \/ \E k \in TxnKeys, v \in Vals : rocksdb_put(k, v)
  \/ \E k \in TxnKeys : rocksdb_delete(k)
  \/ rocksdb_batch_create
  \/ \E k \in Keys : Len(batch.ops) < 2 /\ rocksdb_batch_put(k, <<1>>)
  \/ rocksdb_write_batch
  \/ rocksdb_transaction_begin(1)
  \/ \E k \in TxnKeys : txn[1].wb = <<>> /\ rocksdb_transaction_put(1, k, <<1>>)
  \/ rocksdb_transaction_commit(1)
  \/ rocksdb_read_options_create
  \/ rocksdb_read_options_set_snapshot(TRUE)
  \/ rocksdb_create_snapshot
  \/ \E o \in BOOLEAN : rocksdb_iterator_create(o)
  \/ rocksdb_iterator_seek_to_first_noted
  \/ rocksdb_iterator_next_noted
  \/ rocksdb_iterator_value

SpecBound == Init /\ [][NextBound]_vars

\* A snapshot created, read through, and released with the database handle
\* or with a null pointer as the call's db.
NextPin ==
  \/ rocksdb_open("live")
  \/ \E k \in Keys, v \in Vals : rocksdb_put(k, v)
  \/ rocksdb_read_options_create
  \/ rocksdb_read_options_set_snapshot(TRUE)
  \/ \E k \in TxnKeys : rocksdb_get(TRUE, k)
  \/ rocksdb_create_snapshot
  \/ \E d \in DbArgs : rocksdb_release_snapshot_with(d)

SpecPin == Init /\ [][NextPin]_vars

\* ------------------------------------------------------------------ claims
ConflictClass == {RocksDBStatusBusy, RocksDBStatusTryAgain}

\* C1: when a transaction commits while a key it read with GetForUpdate has
\* since been written by another transaction's successful commit, its Commit
\* returns Busy or TryAgain and leaves the committed state as the other
\* transaction wrote it; a direct Get that returns a buffer returns the
\* committed value.
C1_ConflictingCommitFails ==
  [][/\ \A t \in Txns :
          (res'.op = "txn_commit" /\ res'.t = t /\ hist[t].dirty # {})
            => (res'.code \in ConflictClass /\ kv' = kv)
     /\ (res'.op = "get" /\ res'.code = RocksDBStatusOK /\ res'.out.ptr = "heap")
            => kv'[res'.key] = Present(res'.out.bytes)]_vars

\* T2's Commit has just returned Busy over a key that T1 committed after T2's
\* GetForUpdate, with T2's own, different, Put to that key still buffered.
C1_Witness ==
  /\ res.op = "txn_commit" /\ res.t = 2 /\ res.code = RocksDBStatusBusy
  /\ \E k \in hist[2].dirty :
       /\ kv[k].found
       /\ \E i \in 1..Len(txn[2].wb) :
            /\ txn[2].wb[i].type = "Put" /\ txn[2].wb[i].key = k
            /\ Present(txn[2].wb[i].value) # kv[k]

\* C4: a RollbackToSavePoint that returns OK leaves the transaction holding
\* exactly the operations it held when its most recent un-popped savepoint was
\* set, pops that savepoint only, leaves the transaction live and the
\* committed state untouched.
C4_SavepointLIFO ==
  [][\A t \in Txns :
       (res'.op = "txn_rollback_to_savepoint" /\ res'.t = t
          /\ res'.code = RocksDBStatusOK /\ txn[t].st = "live")
         => /\ txn[t].sp # <<>>
            /\ txn'[t].wb = TopSavePoint(t).wb
            /\ txn'[t].sp = SubSeq(txn[t].sp, 1, Len(txn[t].sp) - 1)
            /\ txn'[t].st = "live"
            /\ kv' = kv]_vars

\* After SetSavePoint, Put(x, 1), SetSavePoint, Put(x, <<>>): one
\* RollbackToSavePoint has discarded the second Put, and the transaction's Get
\* of x finds the first.
C4_Witness ==
  /\ res.op = "txn_rollback_to_savepoint" /\ res.code = RocksDBStatusOK
  /\ hist[1].cut = 1
  /\ txn[1].st = "live"
  /\ Len(txn[1].sp) = 1 /\ txn[1].sp[1].n = 0
  /\ txn[1].wb = <<PutOp(<<1>>, <<1>>)>>
  /\ ~kv[<<1>>].found
  /\ TxnView(1, FALSE)[<<1>>] = Present(<<1>>)

\* C5: once Commit or Rollback has returned on a transaction, no later Put,
\* Delete, RollbackToSavePoint or Commit through the same handle changes the
\* committed state.
C5_TerminalTransactionInert ==
  [][\A t \in Txns :
       (hist[t].term /\ res'.t = t
          /\ res'.op \in {"txn_put", "txn_delete", "txn_rollback_to_savepoint",
                          "txn_commit"})
         => kv' = kv]_vars

\* What key k holds once every operation of `ops` has been applied in order to
\* a state where it held `old`: the effect of the last operation that touches it.
LastTouch(ops, k) ==
  IF \E i \in 1..Len(ops) : OpTouches(ops[i], k)
  THEN CHOOSE i \in 1..Len(ops) :
         /\ OpTouches(ops[i], k)
         /\ \A j \in (i + 1)..Len(ops) : ~OpTouches(ops[j], k)
  ELSE 0

WholeBatch(old, ops) ==
  [k \in Keys |->
     IF LastTouch(ops, k) = 0 THEN old[k]
     ELSE IF ops[LastTouch(ops, k)].type = "Put"
     THEN Present(ops[LastTouch(ops, k)].value)
     ELSE NotPresent]

\* C2: a write of a batch takes the committed state, in one step, from the
\* state before to the state with every operation of the batch applied (on OK)
\* or leaves it alone (otherwise); no state in between is ever the committed
\* state, so a concurrent Get sees the one or the other.
C2_BatchWriteAtomic ==
  [][res'.op = "write_batch" =>
       IF res'.code = RocksDBStatusOK
       THEN kv' = WholeBatch(kv, batch.ops)
       ELSE kv' = kv]_vars

\* The batch [Put(a, 1), Delete(b), Put(a, <<>>)] has been written over a state
\* that held b: a holds the last Put's value and b is absent.
C2_Witness ==
  /\ res.op = "write_batch" /\ res.code = RocksDBStatusOK
  /\ batch.ops = <<PutOp(<<1>>, <<1>>), DeleteOp(<<2>>), PutOp(<<1>>, <<>>)>>
  /\ kv[<<1>>] = Present(<<>>)
  /\ ~kv[<<2>>].found
  /\ lastw[<<2>>] = 2 /\ seq = 2

\* What a lookup of key k reports when the state it reads is m.
Reports(r, m) ==
  IF m[r.key].found
  THEN /\ r.code = RocksDBStatusOK
       /\ r.len = Len(m[r.key].value)
       /\ r.out.ptr = "heap" => r.out.bytes = m[r.key].value
  ELSE r.code = RocksDBStatusNotFound /\ r.out = NullPtr

\* C3: while a snapshot is held, a Get through read options that carry it
\* reports the state of the moment the snapshot was created, whatever has been
\* written since (a key absent then is NotFound now); an iterator created
\* through those options visits only keys present at that moment; a Get
\* without read options reports the latest committed state.
C3_SnapshotIsolation ==
  [][/\ (res'.op = "get_opts" /\ db.st = "live" /\ ropts.st = "live"
          /\ ropts.snapshot = "esnap" /\ esnap.st = "held")
         => Reports(res', esnap.view)
     /\ (res'.op = "get" /\ db.st = "live") => Reports(res', kv)
     /\ (res'.op = "iterator_key" /\ IterLive /\ iter.src = "esnap"
          /\ esnap.st = "held" /\ res'.out.ptr = "internal")
         => esnap.view[res'.out.bytes].found
     /\ (esnap.st = "held" /\ esnap'.st = "held") => esnap'.view = esnap.view]_vars

\* The snapshot was created while key 1 was absent and key 2 present; key 1
\* has been put since.  A Get of key 1 through the snapshot has just returned
\* NotFound, and an iterator through the snapshot stands on key 2, its first.
C3_Witness ==
  /\ res.op = "get_opts" /\ res.key = <<1>> /\ res.code = RocksDBStatusNotFound
  /\ ~ub
  /\ kv[<<1>>].found /\ ~esnap.view[<<1>>].found
  /\ esnap.st = "held" /\ ropts.snapshot = "esnap"
  /\ iter.st = "live" /\ iter.src = "esnap" /\ iter.pos = <<2>>

\* C7: each snapshot handle is freed at most once and the engine's snapshot
\* behind it is released at most once.
C7_SnapshotReleasedOnce == snap.frees <= 1 /\ esnap.releases <= 1

\* The calls that return a RocksDBStatus, by the handle they are given.
DbStatusOps == {"put", "get", "get_opts", "delete"}
TxnStatusOps == {"txn_put", "txn_delete", "txn_get", "txn_get_for_update",
                 "txn_commit", "txn_rollback_to_savepoint"}
TxnOps == TxnStatusOps \cup {"txn_destroy", "txn_rollback", "txn_set_savepoint"}
BatchOps == {"batch_put", "batch_delete", "batch_delete_range", "batch_clear",
             "batch_destroy"}
IterOps == {"iterator_seek_to_first", "iterator_next", "iterator_key",
            "iterator_destroy"}

\* The step was a rejection: InvalidArgument with a message, no handle
\* dereferenced, nothing else changed.
Rejected ==
  /\ res'.code = RocksDBStatusInvalidArgument
  /\ res'.message = "heap"
  /\ ~res'.undef
  /\ UNCHANGED <<db, eng, kv, seq, lastw, txn, batch, snap, esnap, ropts, iter>>

\* C6: a status-returning call given a null or already closed or destroyed
\* database, transaction or batch handle returns InvalidArgument with a
\* message and changes nothing, and no call of any kind dereferences such a
\* handle.
C6_NullOrClosedHandleRejected ==
  [][/\ (res'.op \in DbStatusOps /\ db.st # "live") => Rejected
     /\ (res'.op = "write_batch" /\ (db.st # "live" \/ batch.st # "live"))
          => Rejected
     /\ (res'.op \in TxnStatusOps /\ txn[res'.t].st # "live") => Rejected
     /\ (res'.op \in TxnOps /\ txn[res'.t].st # "live") => ~res'.undef
     /\ (res'.op \in BatchOps /\ batch.st # "live") => ~res'.undef
     /\ (res'.op = "close" /\ db.st # "live") => ~res'.undef]_vars

\* C8: once the database handle has been closed, no call on an iterator,
\* transaction or snapshot made from it reaches the deleted engine.
C8_NoDerivedUseAfterClose ==
  [][(eng = "deleted"
        /\ \/ res'.op \in IterOps /\ iter.st = "live"
           \/ res'.op \in TxnOps /\ txn[res'.t].st = "live"
           \/ res'.op = "release_snapshot" /\ snap.st = "live")
       => ~res'.undef]_vars

\* C9: the Get that directly follows an OK Put of v to the same key, through
\* the engine's default read options and with the storage sound, returns OK
\* with the length of v and a buffer holding v.
C9_PutGetRoundTrip ==
  [][(res.op = "put" /\ res.code = RocksDBStatusOK /\ fault = "kOk"
        /\ res'.op = "get" /\ res'.key = res.key)
       => /\ res'.code = RocksDBStatusOK
          /\ res'.len = Len(kv[res.key].value)
          /\ res'.out = HeapBuf(kv[res.key].value)]_vars

\* C10: an OK result of Get, transactional Get or GetForUpdate carries a
\* non-null buffer, whatever the length of the value.
C10_OkGetHasBuffer ==
  (res.op \in {"get", "get_opts", "txn_get", "txn_get_for_update"}
     /\ res.code = RocksDBStatusOK)
    => res.out.ptr # "null"

Lookups == {"get", "get_opts", "txn_get", "txn_get_for_update"}

\* The step is a call of the interface, not a change of the storage's health.
IsCall == fault' = fault

\* C11: on an open database whose storage is sound, a Get of a key that no
\* committed write has ever touched returns NotFound, with value_out null and
\* value_len_out 0.
C11_UnwrittenKeyNotFound ==
  [][(IsCall /\ res'.op \in {"get", "get_opts"} /\ db.st = "live"
        /\ fault = "kOk" /\ lastw[res'.key] = 0)
       => /\ res'.code = RocksDBStatusNotFound
          /\ res'.out = NullPtr
          /\ res'.len = 0]_vars

\* Key 1 has never been written while key 2 has: the Get of key 1 has just
\* returned NotFound.
C11_Witness ==
  /\ res.op = "get" /\ res.key = <<1>> /\ res.code = RocksDBStatusNotFound
  /\ lastw[<<1>>] = 0 /\ kv[<<2>>].found
  /\ fault = "kOk" /\ db.st = "live"

\* C12: the Get that directly follows an OK Delete of the same key, with the
\* storage sound, returns NotFound with no buffer, whether or not the key was
\* present before the Delete.
C12_DeleteThenGetNotFound ==
  [][(res.op = "delete" /\ res.code = RocksDBStatusOK /\ fault = "kOk"
        /\ res'.op = "get" /\ res'.key = res.key)
       => /\ res'.code = RocksDBStatusNotFound
          /\ res'.out = NullPtr
          /\ res'.len = 0]_vars

\* Key 1 was put, then deleted (its last write is the second), and the Get
\* has just returned NotFound.
C12_Witness ==
  /\ res.op = "get" /\ res.key = <<1>> /\ res.code = RocksDBStatusNotFound
  /\ lastw[<<1>>] = 2 /\ ~kv[<<1>>].found
  /\ lastw[<<2>>] = 0

\* C13: a lookup that returns anything but OK leaves value_out null and
\* value_len_out 0.
C13_NoBufferOnFailure ==
  (res.op \in Lookups /\ res.code # RocksDBStatusOK)
    => (res.out = NullPtr /\ res.len = 0)

\* A transactional GetForUpdate of a key that is present has just failed with
\* the storage's Corruption status, and a buffer was not produced.
C13_Witness ==
  /\ res.op = "txn_get_for_update" /\ res.code = RocksDBStatusCorruption
  /\ fault = "kCorruption"
  /\ kv[res.key].found
  /\ res.out = NullPtr

\* C14: a batch Put, Delete, DeleteRange, Clear, create or destroy (on a batch
\* handle that is null or live, not one already destroyed) leaves the
\* committed state, its sequence numbers, every snapshot and every iterator
\* as they were, so each Get and iterator returns what it did before.
C14_BatchOpsTouchOnlyBatch ==
  [][(res'.op \in BatchOps \cup {"batch_create"} /\ ~res'.undef)
       => /\ kv' = kv /\ seq' = seq /\ lastw' = lastw
          /\ esnap' = esnap /\ iter' = iter
          /\ \A o \in BOOLEAN : ReadView(o)' = ReadView(o)]_vars

\* The batch holds a Put of key 2 and a DeleteRange over key 1, unwritten; the
\* committed state still holds key 1 and no key 2, and the iterator still
\* stands on key 1.
C14_Witness ==
  /\ res.op = "batch_delete_range"
  /\ batch.ops = <<PutOp(<<2>>, <<1>>), DeleteRangeOp(<<1>>, <<2>>)>>
  /\ kv[<<1>>] = Present(<<1>>) /\ ~kv[<<2>>].found
  /\ iter.st = "live" /\ iter.pos = <<1>>

\* C15: a batch write or a transaction commit that returns a status other
\* than OK leaves the committed state untouched and the batch or the
\* transaction holding the same operations in the same order.
C15_FailedWriteChangesNothing ==
  [][/\ (IsCall /\ res'.op = "write_batch" /\ res'.code # RocksDBStatusOK)
         => /\ kv' = kv /\ seq' = seq
            /\ batch' = batch
     /\ (IsCall /\ res'.op = "txn_commit" /\ res'.code # RocksDBStatusOK)
         => /\ kv' = kv /\ seq' = seq
            /\ txn'[res'.t].wb = txn[res'.t].wb]_vars

\* The commit of a transaction holding a Put and a Delete has just failed with
\* IOError: both are still buffered, in order; a batch with one Put has failed
\* to write before it; nothing has been committed.
C15_Witness ==
  /\ res.op = "txn_commit" /\ res.code = RocksDBStatusIOError
  /\ txn[1].wb = <<PutOp(<<1>>, <<1>>), DeleteOp(<<1>>)>>
  /\ batch.ops = <<PutOp(<<1>>, <<>>)>>
  /\ seq = 0 /\ kv = EmptyKV

\* C16: a transaction's Put or Delete leaves the committed state and every
\* other transaction's view as they were; a direct Get reports the committed
\* state, never a buffered operation; a Commit that returns OK makes all the
\* buffered operations the committed state in one step.
C16_TxnWritesBufferUntilCommit ==
  [][/\ (res'.op \in {"txn_put", "txn_delete"} /\ ~res'.undef)
         => /\ kv' = kv /\ seq' = seq /\ lastw' = lastw
            /\ \A u \in Txns \ {res'.t} : TxnView(u, FALSE)' = TxnView(u, FALSE)
     /\ (res'.op = "get" /\ db.st = "live") => Reports(res', kv)
     /\ (res'.op = "txn_commit" /\ res'.code = RocksDBStatusOK /\ ~res'.undef)
         => kv' = WholeBatch(kv, txn[res'.t].wb)
     /\ (res'.op = "txn_commit" /\ res'.code # RocksDBStatusOK) => kv' = kv]_vars

\* Transaction 1 holds an uncommitted Put of key 1 and sees it; transaction 2
\* does not, and the direct Get of key 1 has just returned NotFound.
C16_Witness ==
  /\ res.op = "get" /\ res.key = <<1>> /\ res.code = RocksDBStatusNotFound
  /\ txn[1].wb = <<PutOp(<<1>>, <<1>>)>>
  /\ TxnView(1, FALSE)[<<1>>] = Present(<<1>>)
  /\ txn[2].st = "live" /\ ~TxnView(2, FALSE)[<<1>>].found

\* C17: a transactional Get reports the committed state overlaid with the
\* transaction's own buffered operations and leaves the transaction's tracked
\* keys as they were; a transaction that holds no buffered write and no
\* GetForUpdate commits OK, whatever has been committed to the keys it read.
C17_GetReadsOwnWritesUntracked ==
  [][\A t \in Txns :
       /\ (res'.op = "txn_get" /\ res'.t = t /\ txn[t].st = "live")
           => /\ Reports(res', WholeBatch(kv, txn[t].wb))
              /\ txn'[t].tracked = txn[t].tracked
       /\ (res'.op = "txn_commit" /\ res'.t = t /\ txn[t].st = "live"
            /\ txn[t].wb = <<>> /\ hist[t].gfu = {})
           => res'.code = RocksDBStatusOK]_vars

\* Transaction 2 read key 1 with Get, transaction 1 then committed a Put to
\* it, and transaction 2's Commit has just returned OK.
C17_Witness ==
  /\ res.op = "txn_commit" /\ res.t = 2 /\ res.code = RocksDBStatusOK
  /\ <<1>> \in hist[2].stale
  /\ kv[<<1>>].found /\ lastw[<<1>>] = 1
  /\ hist[1].term

\* What Rollback does in its own step: every buffered operation and every
\* savepoint is gone and the committed state is as it was.
RollbackDiscards ==
  \A t \in Txns :
    (res'.op = "txn_rollback" /\ res'.t = t /\ txn[t].st = "live" /\ ~res'.undef)
      => /\ txn'[t].wb = <<>> /\ txn'[t].sp = <<>>
         /\ kv' = kv /\ seq' = seq

\* C18: Rollback discards every buffered operation whatever savepoints are
\* set, leaves the committed state as it was, and leaves the transaction
\* terminal: a later Put or Delete through the handle buffers nothing and a
\* later Commit changes nothing.
C18_RollbackDiscardsAndEnds ==
  [][/\ RollbackDiscards
     /\ \A t \in Txns :
          (res.op = "txn_rollback" /\ res.t = t /\ txn[t].st = "live"
             /\ res'.t = t /\ res'.op \in {"txn_put", "txn_delete", "txn_commit"})
            => (txn'[t].wb = <<>> /\ kv' = kv)]_vars

\* C19: destroying a live transaction leaves the committed state and the
\* other transactions as they were; the committed state changes only by the
\* Commit of a live transaction, to that transaction's own operations, so what
\* a destroyed transaction held is never applied; and a Commit returns Busy
\* only over a key that a committed write has written, never over a key that
\* only a destroyed transaction touched.
C19_DestroyAbandons ==
  [][/\ \A t \in Txns :
          (res'.op = "txn_destroy" /\ res'.t = t /\ txn[t].st = "live" /\ ~res'.undef)
            => /\ kv' = kv /\ seq' = seq /\ lastw' = lastw
               /\ \A u \in Txns \ {t} : txn'[u] = txn[u]
     /\ kv' # kv
          => /\ res'.op = "txn_commit" /\ txn[res'.t].st = "live"
             /\ kv' = WholeBatch(kv, txn[res'.t].wb)
     /\ (res'.op = "txn_commit" /\ ~res'.undef /\ res'.code = RocksDBStatusBusy)
          => \E k \in Keys : lastw[k] > 0]_vars

\* Transaction 1 was destroyed holding a GetForUpdate of key 1 and a Put to
\* it; transaction 2 has put to key 1 and its Commit has just returned OK, the
\* first write ever committed.
C19_Witness ==
  /\ res.op = "txn_commit" /\ res.t = 2 /\ res.code = RocksDBStatusOK
  /\ txn[1].st = "freed" /\ hist[1].dropped = 1 /\ <<1>> \in hist[1].gfu
  /\ kv[<<1>>] = Present(<<1>>) /\ seq = 1

\* C20: rocksdb_transaction_begin returns a transaction exactly when the
\* handle is live and was opened in transactional mode; on a null handle and
\* on a read-write or read-only handle it returns null and no transaction
\* comes to exist.
C20_BeginOnlyTransactional ==
  [][\A t \in Txns :
       (res'.op = "txn_begin" /\ res'.t = t /\ db.st # "freed")
         => IF db.st = "live" /\ db.mode = "txn"
            THEN res'.out.ptr = "heap" /\ txn'[t].st = "live"
            ELSE res'.out = NullPtr /\ txn' = txn]_vars

\* On a live read-only handle, begin has just returned null and no
\* transaction exists.
C20_Witness ==
  /\ res.op = "txn_begin" /\ res.out = NullPtr
  /\ db.st = "live" /\ db.mode = "ro"
  /\ \A t \in Txns : txn[t].st = "null"

\* C21: in each of the three open modes, an open whose engine open fails
\* returns a non-OK status, leaves *db_out null, leaves no RocksDBHandle
\* allocated and no engine instance behind; an open that succeeds returns OK
\* with *db_out non-null and a non-null engine pointer in the handle.  The
\* status is OK exactly when *db_out is non-null.
C21_OpenFailureLeavesNothing ==
  [][(IsCall /\ res'.op = "open" /\ ~res'.undef)
       => /\ (res'.code = RocksDBStatusOK) <=> (db'.st = "live")
          /\ (res'.code = RocksDBStatusOK) <=> (fault = "kOk")
          /\ IF fault = "kOk"
             THEN /\ db'.db # "null" /\ db'.allocated = 1 /\ eng' = "open"
                  /\ db'.mode = "txn" => db'.txn_db # "null"
             ELSE /\ db'.st = "null" /\ db'.allocated = 0 /\ eng' = "none"
                  /\ res'.message = "heap"]_vars

\* An open has just failed with Corruption: the caller holds no handle, none
\* is allocated, and no engine instance exists.
C21_Witness ==
  /\ res.op = "open" /\ res.code = RocksDBStatusCorruption
  /\ fault = "kCorruption"
  /\ db.st = "null" /\ db.allocated = 0 /\ eng = "none"

\* The code that carries the same name as each engine condition the bridge
\* recognises.
SameNamed ==
  [s \in EngineCodes \ {"kOk", "kColumnFamilyDropped"} |->
     CASE s = "kNotFound" -> RocksDBStatusNotFound
       [] s = "kCorruption" -> RocksDBStatusCorruption
       [] s = "kNotSupported" -> RocksDBStatusNotSupported
       [] s = "kInvalidArgument" -> RocksDBStatusInvalidArgument
       [] s = "kIOError" -> RocksDBStatusIOError
       [] s = "kMergeInProgress" -> RocksDBStatusMergeInProgress
       [] s = "kIncomplete" -> RocksDBStatusIncomplete
       [] s = "kShutdownInProgress" -> RocksDBStatusShutdownInProgress
       [] s = "kTimedOut" -> RocksDBStatusTimedOut
       [] s = "kAborted" -> RocksDBStatusAborted
       [] s = "kBusy" -> RocksDBStatusBusy
       [] s = "kExpired" -> RocksDBStatusExpired
       [] s = "kTryAgain" -> RocksDBStatusTryAgain
       [] s = "kCompactionTooLarge" -> RocksDBStatusCompactionTooLarge]

\* The code the mapping owes to engine status s.
CodeFor(s) ==
  IF s = "kOk" THEN RocksDBStatusOK
  ELSE IF s \in DOMAIN SameNamed THEN SameNamed[s]
  ELSE RocksDBStatusIOError

\* No two recognised conditions are mapped to one code.
RecognisedApart ==
  \A a \in DOMAIN SameNamed, b \in DOMAIN SameNamed :
    make_status(a).code = make_status(b).code => a = b

\* C22: the status a call returns for an engine status is a function of that
\* status alone: OK for OK, the same-named code for each of the fourteen
\* recognised conditions, IOError for any other; NotFound is never reported
\* as IOError, and two different recognised conditions never share a code.
C22_StatusMappingTotal ==
  [][/\ (IsCall /\ res'.op \in Lookups \cup {"put"} /\ ~res'.undef
           /\ db.st = "live" /\ fault # "kOk"
           /\ (res'.t # 0 => txn[res'.t].st = "live"))
          => /\ res'.code = CodeFor(fault)
             /\ (fault = "kNotFound" => res'.code # RocksDBStatusIOError)
     /\ (IsCall /\ res'.op \in Lookups /\ ~res'.undef /\ fault = "kOk"
           /\ res'.code # RocksDBStatusInvalidArgument)
          => res'.code \in {RocksDBStatusOK, RocksDBStatusNotFound}
     /\ RecognisedApart]_vars

\* A Get has just failed with an engine status the bridge has no branch for,
\* and reported IOError.
C22_Witness ==
  /\ res.op = "get" /\ fault = "kColumnFamilyDropped"
  /\ res.code = RocksDBStatusIOError /\ res.message = "heap"

KeysOf(m) == {k \in Keys : m[k].found}

Ascending(tr) == \A i \in 1..(Len(tr) - 1) : KeyLess(tr[i], tr[i + 1])

\* C24: over a database that holds exactly the keys the iterator was created
\* on, SeekToFirst followed by Next until the iterator is no longer valid
\* stands on every key once, in ascending byte order; the iterator is then
\* not valid, rocksdb_iterator_valid returns 0 and rocksdb_iterator_status
\* returns OK.
C24_FullScanInOrder ==
  [][/\ (res'.op \in {"iterator_seek_to_first", "iterator_next"} /\ ~res'.undef
           /\ iter.st = "live" /\ iter.view = kv)
          => /\ Ascending(iter'.trail)
             /\ \A i \in 1..Len(iter'.trail) : iter'.trail[i] \in KeysOf(kv)
             /\ iter'.pos # NoKey => iter'.trail[Len(iter'.trail)] = iter'.pos
             /\ iter'.pos = NoKey
                  => {iter'.trail[i] : i \in 1..Len(iter'.trail)} = KeysOf(kv)
     /\ (res'.op = "iterator_valid" /\ ~res'.undef /\ iter.st = "live")
          => (res'.len = 0) <=> (iter.pos = NoKey)
     /\ (res'.op = "iterator_status" /\ ~res'.undef /\ iter.st = "live")
          => res'.code = RocksDBStatusOK]_vars

\* The database holds keys 1 and 2; the iterator has stood on key 1, then on
\* key 2, is no longer valid, and its status has just been reported OK.
C24_Witness ==
  /\ res.op = "iterator_status" /\ res.code = RocksDBStatusOK
  /\ KeysOf(kv) = Keys /\ iter.view = kv
  /\ iter.st = "live" /\ iter.pos = NoKey
  /\ iter.trail = <<<<1>>, <<2>>>>

\* p is the smallest (largest) key of X, or no key when X is empty.
SmallestOf(X, p) ==
  IF X = {} THEN p = NoKey ELSE p \in X /\ \A j \in X : KeyLeq(p, j)

LargestOf(X, p) ==
  IF X = {} THEN p = NoKey ELSE p \in X /\ \A j \in X : KeyLeq(j, p)

\* C25: with S the keys of the view the iterator is bound to, Seek(t) leaves
\* it on the smallest key of S at or above t, SeekForPrev(t) on the largest key
\* of S at or below t, SeekToFirst on the smallest and SeekToLast on the
\* largest key of S; in each case it is not valid when there is no such key.
C25_SeekPositions ==
  [][(~res'.undef /\ iter.st = "live")
       => /\ res'.op = "iterator_seek"
               => SmallestOf({k \in KeysOf(iter.view) : KeyLeq(res'.key, k)}, iter'.pos)
          /\ res'.op = "iterator_seek_for_prev"
               => LargestOf({k \in KeysOf(iter.view) : KeyLeq(k, res'.key)}, iter'.pos)
          /\ res'.op = "iterator_seek_to_first"
               => SmallestOf(KeysOf(iter.view), iter'.pos)
          /\ res'.op = "iterator_seek_to_last"
               => LargestOf(KeysOf(iter.view), iter'.pos)]_vars

\* The view holds keys 1 and 2; a Seek to a target between them has just
\* left the iterator on key 2.
C25_Witness ==
  /\ res.op = "iterator_seek" /\ res.key = <<1, 1>>
  /\ iter.st = "live" /\ KeysOf(iter.view) = Keys
  /\ iter.pos = <<2>>

Accessors == {"iterator_key", "iterator_value"}

\* C26: on a null iterator handle and on an iterator that is not valid (never
\* positioned, or stepped off either end) the key and value accessors return
\* null with length 0 and dereference nothing; on a valid iterator they return
\* the current key and value from the iterator's own memory; and
\* rocksdb_iterator_valid returns 1 exactly when an accessor called next
\* returns an entry.
C26_AccessorsNullWhenInvalid ==
  [][/\ (res'.op \in Accessors /\ iter.st # "freed" /\ eng # "deleted")
          => /\ ~res'.undef /\ ub' = ub
             /\ IF iter.st = "null" \/ iter.pos = NoKey
                THEN res'.out = NullPtr /\ res'.len = 0
                ELSE /\ res'.out.ptr = "internal"
                     /\ res'.len = Len(res'.out.bytes)
                     /\ res'.op = "iterator_key" => res'.out.bytes = iter.pos
                     /\ res'.op = "iterator_value"
                          => Present(res'.out.bytes) = iter.view[iter.pos]
     /\ (res.op = "iterator_valid" /\ ~res.undef /\ res'.op \in Accessors
           /\ ~res'.undef)
          => (res.len = 1) <=> (res'.out.ptr # "null")
     /\ (res'.op = "iterator_valid" /\ ~res'.undef)
          => res'.len \in {0, 1}]_vars

\* The view holds a key, the iterator is live and not valid, and the value
\* accessor has just returned null with length 0.
C26_Witness ==
  /\ res.op = "iterator_value" /\ res.out = NullPtr /\ res.len = 0
  /\ iter.st = "live" /\ iter.pos = NoKey
  /\ KeysOf(iter.view) # {}

\* C27: an iterator created on the database is bound to the committed state
\* of that moment, or to the snapshot its read options carry; no Put, Delete,
\* batch write or transaction commit made afterwards changes what it is bound
\* to, and every position it takes and every value it returns comes from that
\* state.
C27_IteratorBoundAtCreation ==
  [][/\ (res'.op = "iterator_create" /\ ~res'.undef /\ iter'.st = "live")
          => /\ iter'.src = "latest" => iter'.view = kv
             /\ iter'.src = "esnap"
                  => (iter'.view = esnap.view /\ ropts.snapshot = "esnap")
     /\ (iter.st = "live" /\ iter'.st = "live") => iter'.view = iter.view
     /\ (iter.st = "live" /\ ~res'.undef
           /\ res'.op \in {"iterator_seek_to_first", "iterator_next"})
          => /\ iter'.pos \in KeysOf(iter.view) \cup {NoKey}
             /\ iter'.pos = NoKey
                  => {iter'.trail[i] : i \in 1..Len(iter'.trail)} = KeysOf(iter.view)
     /\ (iter.st = "live" /\ ~res'.undef /\ res'.op = "iterator_value"
           /\ res'.out.ptr # "null")
          => Present(res'.out.bytes) = iter.view[iter.pos]]_vars

\* The iterator was created while key 1 held the empty value and key 2 was
\* absent; since then key 1 has been overwritten and key 2 put.  It has just
\* returned key 1's old value, and key 2 is not among its keys.
C27_Witness ==
  /\ res.op = "iterator_value" /\ res.out = [ptr |-> "internal", bytes |-> <<>>]
  /\ iter.st = "live" /\ iter.src = "latest" /\ iter.pos = <<1>>
  /\ KeysOf(iter.view) = {<<1>>}
  /\ kv[<<1>>] = Present(<<1>>) /\ kv[<<2>>].found

\* C28: closing a live handle deletes the engine instance once: through db on
\* a read-write or read-only handle, through txn_db alone on a transactional
\* one (the cached base pointer is not deleted as well), and the handle is
\* freed; the cleanup after a failed open deletes no engine object; as long
\* as no call has gone through a dead handle, no more than one engine
\* pointer has ever been deleted.
C28_EngineDeletedOnce ==
  [][/\ (res'.op = "close" /\ db.st = "live" /\ ~res'.undef)
          => /\ eng = "open" /\ eng' = "deleted"
             /\ db'.deleted = <<IF db.mode = "txn" THEN "txn_db" ELSE "db">>
             /\ db'.allocated = 0
     /\ (IsCall /\ res'.op = "open" /\ ~res'.undef
           /\ res'.code # RocksDBStatusOK)
          => /\ db'.deleted = <<>> /\ eng' = "none"
     /\ ~ub' => /\ Len(db'.deleted) <= 1
                /\ (eng' = "deleted") <=> (Len(db'.deleted) = 1)]_vars

\* A transactional handle has just been closed: the transaction DB, and only
\* it, has been deleted.
C28_Witness ==
  /\ res.op = "close" /\ ~ub
  /\ db.st = "freed" /\ db.mode = "txn" /\ db.is_transactional
  /\ db.db = "base" /\ db.txn_db = "set"
  /\ db.deleted = <<"txn_db">> /\ eng = "deleted"

\* The engine holds its snapshot for as long as the handle is live.
PinnedWhileLive == snap.st = "live" => esnap.st = "held"

\* C29: the engine's snapshot is held from rocksdb_create_snapshot until
\* rocksdb_release_snapshot is called on its handle, and once that call has
\* returned the handle is freed and the engine no longer holds the snapshot,
\* whatever db the call was given, null included.
C29_ReleaseUnpins ==
  [][/\ PinnedWhileLive'
     /\ (res'.op = "release_snapshot" /\ snap.st = "live" /\ ~res'.undef)
          => /\ snap'.st = "freed"
             /\ esnap'.st # "held"]_vars

====
